---- MODULE Spec2Model ----
(***************************************************************************)
(* Model of the rule-based design QA engine of backend.py: the class       *)
(* DesignQAAnalyzer (element normalization, the five checkers, scoring,    *)
(* report assembly).                                                       *)
(*                                                                         *)
(* Representation of Python values.                                        *)
(*   dict          a function from key strings to values; d.get(k, v) is   *)
(*                 Get(d, k, v); {} is EmptyDict                           *)
(*   list          a sequence                                              *)
(*   None / null   the record None                                         *)
(*   number        JNum(n), where the integer n counts units of 1/Scale,   *)
(*                 so that fractional pixel values exist (Px(18) is 18)    *)
(*   string        element ids are JStr("a"); strings whose characters the *)
(*                 code inspects (colors, altText) are JStr of a sequence  *)
(*                 of one-character strings; type, fontFamily, text and    *)
(*                 severity, which the code only compares with literals    *)
(*                 or copies, are plain strings                            *)
(*   f-string id   the tuple of its parts: f"contrast-{id}" is             *)
(*                 <<"contrast-", id>>                                     *)
(*   ratio         a contrast ratio is an integer number of hundredths     *)
(*                 (the code rounds it to 2 decimals): 4.5 is 450          *)
(*   exception     an operator XRaises(..) states when the code raises;    *)
(*                 the action then moves pc to "raised"                    *)
(***************************************************************************)
EXTENDS Integers, Sequences, FiniteSets, TLC

VARIABLES
    pc,             \* position inside the call under analysis
    elements,       \* the `elements` argument of the call
    options,        \* the `options` argument of analyze_design
    transformed,    \* analyze_design: transformed_elements
    issues,         \* analyze_design: issues / a checker's returned list
    overall_score,  \* analyze_design: overall_score / _calculate_score's result
    report,         \* analyze_design: the returned report
    ai_enabled,     \* AIDesignAnalyzer.ai_enabled, set by the constructor
    ai_analysis,    \* analyze_design: ai_analysis
    ai_outcome,     \* how analyze_with_ai returned: "disabled", "error", "ok"
    rules,          \* DesignQAAnalyzer.analysis_rules of the shared analyzer
    history,        \* the calls of analyze_design that ended before this one
    first_color,    \* _calculate_contrast_ratio: color1
    second_color,   \* _calculate_contrast_ratio: color2
    ratio,          \* _calculate_contrast_ratio: the returned ratio
    now,            \* the wall clock read by time.time(), in milliseconds
    start_time,     \* analyze_design: start_time
    pipeline_time,  \* the time passed from the reading of start_time to the
                    \* end of scoring, in milliseconds
    design_context  \* analyze_with_ai: design_context

vars == <<pc, elements, options, transformed, issues, overall_score, report,
          ai_enabled, ai_analysis, ai_outcome, rules, history, first_color,
          second_color, ratio, now, start_time, pipeline_time, design_context>>

(***************************************************************************)
(* Bounds of the model.                                                    *)
(***************************************************************************)
Scale == 2
MaxIssues == 6
MaxRaw == 2
MaxContrast == 2
MaxTypography == 4
MaxSpacing == 4
MaxAlignment == 3
MaxElements == 2
MaxMany == 9
MaxLive == 1
MaxCalls == 3
MaxClock == 12
MaxTick == 5

(***************************************************************************)
(* Python values.                                                          *)
(***************************************************************************)
None == [none |-> TRUE]
JNum(n) == [num |-> n]
JStr(s) == [str |-> s]
EmptyDict == [k \in {} |-> None]
Px(n) == n * Scale

IsNone(v) == DOMAIN v = {"none"}
IsNum(v) == DOMAIN v = {"num"}
IsStr(v) == DOMAIN v = {"str"}
IsDict(v) == ~IsNone(v) /\ ~IsNum(v) /\ ~IsStr(v)

Get(d, k, default) == IF k \in DOMAIN d THEN d[k] ELSE default

\* Python truth of None, a number, a dict or a string of characters.
Truthy(v) ==
    IF IsNone(v) THEN FALSE
    ELSE IF IsNum(v) THEN v.num # 0
    ELSE IF IsStr(v) THEN Len(v.str) > 0
    ELSE DOMAIN v # {}

\* e.get('type') == t
IsType(e, t) == "type" \in DOMAIN e /\ e.type = t

\* [e for e in elements if e.get('type') == 'text']
TextElements(element_list) == SelectSeq(element_list, LAMBDA e : IsType(e, "text"))

Max(a, b) == IF a >= b THEN a ELSE b
Min(a, b) == IF a <= b THEN a ELSE b
Abs(a) == IF a < 0 THEN -a ELSE a

\* All sequences over S of length at most n.
SeqUpTo(S, n) == UNION {[1..k -> S] : k \in 0..n}

(***************************************************************************)
(* analysis_rules (backend.py 298-304).  Ratios are in hundredths, sizes   *)
(* and distances in pixels (Px converts them where they are compared).     *)
(***************************************************************************)
analysis_rules ==
    [contrast |-> [min_ratio |-> 450, large_text_ratio |-> 300],
     typography |-> [max_fonts |-> 3, min_font_size |-> 12],
     spacing |-> [min_spacing |-> 8, consistent_grid |-> TRUE],
     accessibility |-> [require_alt_text |-> TRUE],
     alignment |-> [tolerance |-> 5]]

(***************************************************************************)
(* _calculate_score (backend.py 649-664).                                  *)
(***************************************************************************)
RECURSIVE score_loop(_, _)
score_loop(issue_list, score) ==
    IF Len(issue_list) = 0 THEN score
    ELSE LET issue == Head(issue_list)
             severity == Get(issue, "severity", "low")
         IN score_loop(Tail(issue_list),
                CASE severity = "critical" -> score - 20
                  [] severity = "high" -> score - 15
                  [] severity = "medium" -> score - 10
                  [] severity = "low" -> score - 5
                  [] OTHER -> score)

\* Mutants of _calculate_score: the clamp forgotten; a wrong critical weight.
calculate_score_unclamped(issue_list) == score_loop(issue_list, 100)

calculate_score_critical15(issue_list) ==
    LET n == Cardinality({i \in 1..Len(issue_list) :
                 Get(issue_list[i], "severity", "low") = "critical"})
    IN Max(0, Min(100, score_loop(issue_list, 100) + 5 * n))

_calculate_score(issue_list) == Max(0, Min(100, score_loop(issue_list, 100)))

(***************************************************************************)
(* Specification SpecScore: _calculate_score applied to every issue list   *)
(* of at most MaxIssues issues, each with a severity among the four known  *)
(* ones, an unknown one, or none.                                          *)
(***************************************************************************)
CriticalIssue == [id |-> "extra", severity |-> "critical"]

ScoreIssueSet ==
    {[id |-> "i"]} \cup
    {[id |-> "i", severity |-> s] :
        s \in {"critical", "high", "medium", "low", "info"}}

InitScore ==
    /\ pc = "call"
    /\ issues \in SeqUpTo(ScoreIssueSet, MaxIssues)
    /\ overall_score = -1
    /\ elements = <<>>
    /\ options = EmptyDict
    /\ transformed = <<>>
    /\ report = EmptyDict
    /\ ai_enabled = FALSE
    /\ ai_analysis = EmptyDict
    /\ ai_outcome = "none"
    /\ rules = analysis_rules
    /\ history = <<>>
    /\ first_color = None
    /\ second_color = None
    /\ ratio = -1
    /\ now = 0
    /\ start_time = 0
    /\ pipeline_time = 0
    /\ design_context = EmptyDict

\* overall_score = self._calculate_score(issues)
CallCalculateScore ==
    /\ pc = "call"
    /\ overall_score' = _calculate_score(issues)
    /\ pc' = "done"
    /\ UNCHANGED <<now, start_time, pipeline_time, design_context,
                   ai_outcome, rules, history, first_color, second_color, ratio,
                 elements, options, transformed, issues, report, ai_enabled,
                 ai_analysis>>

\* The same issue set with one critical issue added, scored again.
AddCriticalIssue ==
    /\ pc = "done"
    /\ Len(issues) < MaxIssues + 1
    /\ issues' = Append(issues, CriticalIssue)
    /\ overall_score' = _calculate_score(issues')
    /\ UNCHANGED <<now, start_time, pipeline_time, design_context,
                   ai_outcome, rules, history, first_color, second_color, ratio,
                 pc, elements, options, transformed, report, ai_enabled,
                 ai_analysis>>

NextScore == CallCalculateScore \/ AddCriticalIssue

SpecScore == InitScore /\ [][NextScore]_vars

(***************************************************************************)
(* Claims about the score.                                                 *)
(***************************************************************************)
\* The weight the specification gives an issue: 20, 15, 10, 5 by severity,
\* and 5 for a missing or unknown severity.
ClaimedWeight(issue) ==
    IF "severity" \notin DOMAIN issue THEN 5
    ELSE CASE issue.severity = "critical" -> 20
           [] issue.severity = "high" -> 15
           [] issue.severity = "medium" -> 10
           [] OTHER -> 5

RECURSIVE ClaimedWeightSum(_)
ClaimedWeightSum(s) ==
    IF Len(s) = 0 THEN 0 ELSE ClaimedWeight(Head(s)) + ClaimedWeightSum(Tail(s))

KnownSeverities(s) ==
    \A i \in 1..Len(s) :
        "severity" \in DOMAIN s[i] =>
            s[i].severity \in {"critical", "high", "medium", "low"}

\* C1: whenever _calculate_score has returned, its result is an integer
\* between 0 and 100.
C1_ScoreInRange ==
    pc = "done" => overall_score \in 0..100

\* C1 witness: a scored list whose deductions exceed 100, so the lower clamp acts.
C1_Witness ==
    /\ pc = "done"
    /\ KnownSeverities(issues)
    /\ ClaimedWeightSum(issues) > 100
    /\ overall_score = 0

\* C2: the score is clamp(100 - sum of weights, 0, 100) with weight 20 / 15 /
\* 10 / 5 for critical / high / medium / low and 5 for every issue whose
\* severity is missing or is none of those four.
C2_ScoreIsClampedWeightSum ==
    pc = "done" =>
        overall_score = Max(0, Min(100, 100 - ClaimedWeightSum(issues)))

AddCriticalStep ==
    /\ pc = "done"
    /\ pc' = "done"
    /\ issues' = Append(issues, CriticalIssue)

\* C3 as stated: adding one critical issue never increases the score and
\* lowers it by exactly 20 unless the score was already 0.
C3_Original ==
    [][AddCriticalStep =>
         /\ overall_score' <= overall_score
         /\ (overall_score # 0 => overall_score - overall_score' = 20)]_vars

\* C3 amended: adding one critical issue never increases the score; it lowers
\* it by exactly 20 when the score was at least 20 and to 0 otherwise.
C3_AddCriticalLowersBy20OrToZero ==
    [][AddCriticalStep =>
         /\ overall_score' <= overall_score
         /\ overall_score' = Max(0, overall_score - 20)]_vars

\* C3 witness: a critical issue was added to a list that scored 10, giving 0.
C3_Witness ==
    /\ pc = "done"
    /\ Len(issues) > 1
    /\ issues[Len(issues)] = CriticalIssue
    /\ KnownSeverities(issues)
    /\ ClaimedWeightSum(issues) = 110
    /\ overall_score = 0

(***************************************************************************)
(* _hex_to_rgb (backend.py 633-638).  A color string is a sequence of      *)
(* one-character strings.  int(s, 16) is modelled on strings made of hex   *)
(* digits and other printable characters without sign, blank or            *)
(* underscore: it raises ValueError on the empty string and on any         *)
(* character that is no hex digit.                                         *)
(***************************************************************************)
HexDigitValue ==
    [c \in {"0", "1", "2", "3", "4", "5", "6", "7", "8", "9",
            "a", "b", "c", "d", "e", "f", "A", "B", "C", "D", "E", "F"} |->
        CASE c = "0" -> 0 [] c = "1" -> 1 [] c = "2" -> 2 [] c = "3" -> 3
          [] c = "4" -> 4 [] c = "5" -> 5 [] c = "6" -> 6 [] c = "7" -> 7
          [] c = "8" -> 8 [] c = "9" -> 9
          [] c \in {"a", "A"} -> 10 [] c \in {"b", "B"} -> 11
          [] c \in {"c", "C"} -> 12 [] c \in {"d", "D"} -> 13
          [] c \in {"e", "E"} -> 14 [] c \in {"f", "F"} -> 15]

\* s.lstrip('#')
RECURSIVE lstrip_hash(_)
lstrip_hash(s) ==
    IF Len(s) > 0 /\ Head(s) = "#" THEN lstrip_hash(Tail(s)) ELSE s

\* s[i:j] for 0 <= i <= j
Slice(s, i, j) == SubSeq(s, i + 1, Min(j, Len(s)))

\* ''.join([c*2 for c in s])
RECURSIVE double_chars(_)
double_chars(s) ==
    IF Len(s) = 0 THEN <<>> ELSE <<Head(s), Head(s)>> \o double_chars(Tail(s))

int16_raises(s) ==
    Len(s) = 0 \/ \E i \in 1..Len(s) : s[i] \notin DOMAIN HexDigitValue

RECURSIVE int16(_)
int16(s) ==
    IF Len(s) = 0 THEN 0
    ELSE 16 * int16(SubSeq(s, 1, Len(s) - 1)) + HexDigitValue[s[Len(s)]]

\* The digits _hex_to_rgb slices: the string without leading '#', a
\* 3-character string doubled.
hex_digits(hex_color) ==
    LET stripped == lstrip_hash(hex_color.str)
    IN IF Len(stripped) = 3 THEN double_chars(stripped) ELSE stripped

\* AttributeError on a value that is no string, ValueError from int().
hex_to_rgb_raises(hex_color) ==
    \/ ~IsStr(hex_color)
    \/ \E i \in {0, 2, 4} : int16_raises(Slice(hex_digits(hex_color), i, i + 2))

_hex_to_rgb(hex_color) ==
    [k \in 1..3 |-> int16(Slice(hex_digits(hex_color), 2 * (k - 1), 2 * k))]

(***************************************************************************)
(* _get_luminance (backend.py 640-647), in fixed point.  adjust_color_table*)
(* holds round(200000 * adjust_color(c)) for c = 0..255, where             *)
(* adjust_color(c) is c/255/12.92 if c/255 <= 0.03928 and                  *)
(* ((c/255 + 0.055)/1.055)^2.4 otherwise.  The luminance is in units of    *)
(* 10^-7.                                                                  *)
(***************************************************************************)
adjust_color_table == <<
    0, 61, 121, 182, 243, 304, 364, 425,
    486, 546, 607, 669, 735, 805, 878, 955,
    1036, 1121, 1210, 1302, 1399, 1500, 1605, 1714,
    1827, 1944, 2066, 2192, 2322, 2457, 2597, 2740,
    2889, 3042, 3199, 3361, 3528, 3700, 3876, 4058,
    4244, 4435, 4631, 4832, 5037, 5248, 5464, 5685,
    5911, 6143, 6379, 6621, 6868, 7120, 7378, 7641,
    7909, 8183, 8462, 8747, 9037, 9333, 9634, 9941,
    10254, 10572, 10896, 11226, 11561, 11902, 12249, 12602,
    12961, 13325, 13696, 14072, 14454, 14843, 15237, 15637,
    16044, 16457, 16875, 17300, 17731, 18168, 18612, 19061,
    19517, 19980, 20448, 20923, 21405, 21892, 22386, 22887,
    23394, 23908, 24428, 24954, 25488, 26027, 26574, 27127,
    27686, 28253, 28826, 29405, 29992, 30585, 31185, 31792,
    32406, 33026, 33654, 34288, 34929, 35578, 36233, 36895,
    37564, 38240, 38924, 39614, 40311, 41016, 41727, 42446,
    43172, 43905, 44646, 45393, 46148, 46910, 47680, 48456,
    49240, 50032, 50830, 51637, 52450, 53271, 54100, 54935,
    55779, 56630, 57488, 58354, 59228, 60109, 60997, 61894,
    62798, 63709, 64629, 65556, 66490, 67433, 68383, 69341,
    70307, 71280, 72261, 73251, 74248, 75252, 76265, 77286,
    78314, 79351, 80396, 81448, 82509, 83577, 84654, 85738,
    86831, 87931, 89040, 90157, 91282, 92415, 93557, 94706,
    95864, 97030, 98204, 99387, 100577, 101776, 102984, 104199,
    105423, 106655, 107896, 109145, 110402, 111668, 112942, 114225,
    115516, 116816, 118124, 119440, 120765, 122099, 123441, 124792,
    126151, 127519, 128896, 130281, 131675, 133077, 134489, 135908,
    137337, 138774, 140220, 141675, 143139, 144611, 146092, 147582,
    149081, 150588, 152105, 153630, 155164, 156708, 158260, 159821,
    161390, 162969, 164557, 166154, 167760, 169375, 170999, 172631,
    174273, 175924, 177585, 179254, 180932, 182620, 184316, 186022,
    187737, 189461, 191195, 192937, 194689, 196450, 198220, 200000 >>

adjust_color(c) == adjust_color_table[c + 1]

_get_luminance(rgb) ==
    (2126 * adjust_color(rgb[1]) + 7152 * adjust_color(rgb[2])
        + 722 * adjust_color(rgb[3])) \div 200

(***************************************************************************)
(* _calculate_contrast_ratio (backend.py 614-631).  The result is the      *)
(* ratio rounded to 2 decimals, in hundredths; any exception gives 4.5.    *)
(***************************************************************************)
\* round((lighter + 0.05) / (darker + 0.05), 2), in hundredths
rounded_ratio(lighter, darker) ==
    LET a == lighter + 500000
        b == darker + 500000
    IN 100 * (a \div b) + (200 * (a % b) + b) \div (2 * b)

\* Mutant of _calculate_contrast_ratio: the ratio of the first color's
\* luminance to the second's, without ordering them.
calculate_contrast_ratio_unordered(color1, color2) ==
    IF hex_to_rgb_raises(color1) \/ hex_to_rgb_raises(color2) THEN 450
    ELSE rounded_ratio(_get_luminance(_hex_to_rgb(color1)),
                       _get_luminance(_hex_to_rgb(color2)))

_calculate_contrast_ratio(color1, color2) ==
    IF hex_to_rgb_raises(color1) \/ hex_to_rgb_raises(color2) THEN 450
    ELSE LET lum1 == _get_luminance(_hex_to_rgb(color1))
             lum2 == _get_luminance(_hex_to_rgb(color2))
         IN rounded_ratio(Max(lum1, lum2), Min(lum1, lum2))

\* Color literals of the code.
Black == JStr(<<"#", "0", "0", "0", "0", "0", "0">>)
White == JStr(<<"#", "F", "F", "F", "F", "F", "F">>)

(***************************************************************************)
(* _transform_elements (backend.py 666-704).                               *)
(***************************************************************************)
CopiedKeys ==
    <<"color", "backgroundColor", "fontSize", "fontFamily", "text", "altText">>

\* for key in [...]: if key in properties: transformed_element[key] = properties[key]
RECURSIVE copy_properties(_, _, _)
copy_properties(keys, properties, transformed_element) ==
    IF Len(keys) = 0 THEN transformed_element
    ELSE copy_properties(Tail(keys), properties,
            IF Head(keys) \in DOMAIN properties
            THEN (Head(keys) :> properties[Head(keys)]) @@ transformed_element
            ELSE transformed_element)

\* AttributeError: .get called on a properties, position or dimensions value
\* that is no dict.
transform_element_raises(element) ==
    LET properties == Get(element, "properties", EmptyDict)
    IN \/ ~IsDict(properties)
       \/ ~IsDict(Get(properties, "position", EmptyDict))
       \/ ~IsDict(Get(properties, "dimensions", EmptyDict))

\* The body of the loop: one raw element to its transformed_element.
transform_element(element) ==
    LET element_id == Get(element, "id", JStr("unknown"))
        element_type == Get(element, "type", "unknown")
        properties == Get(element, "properties", EmptyDict)
        position == Get(properties, "position", EmptyDict)
        dimensions == Get(properties, "dimensions", EmptyDict)
        copied == copy_properties(CopiedKeys, properties,
                    [id |-> element_id,
                     type |-> element_type,
                     x |-> Get(position, "x", JNum(0)),
                     y |-> Get(position, "y", JNum(0)),
                     width |-> Get(dimensions, "width", JNum(Px(100))),
                     height |-> Get(dimensions, "height", JNum(Px(50)))])
    IN IF "backgroundColor" \notin DOMAIN copied /\ element_type = "text"
       THEN ("backgroundColor" :> White) @@ copied
       ELSE copied

transform_elements_raises(raw) ==
    \E i \in 1..Len(raw) : transform_element_raises(raw[i])

RECURSIVE transform_loop(_, _)
transform_loop(raw, result) ==
    IF Len(raw) = 0 THEN result
    ELSE transform_loop(Tail(raw), Append(result, transform_element(Head(raw))))

\* Mutant of _transform_elements: elements without properties are skipped.
RECURSIVE transform_loop_skipping(_, _)
transform_loop_skipping(raw, result) ==
    IF Len(raw) = 0 THEN result
    ELSE transform_loop_skipping(Tail(raw),
            IF "properties" \in DOMAIN Head(raw)
            THEN Append(result, transform_element(Head(raw)))
            ELSE result)

transform_elements_skipping(raw) == transform_loop_skipping(raw, <<>>)

_transform_elements(raw) == transform_loop(raw, <<>>)

(***************************************************************************)
(* Specification SpecTransform: _transform_elements applied to every list  *)
(* of at most MaxRaw raw records in which fields are absent at every       *)
(* nesting level (and never null or wrongly typed).                        *)
(***************************************************************************)
Gray == JStr(<<"#", "8", "8", "8", "8", "8", "8">>)

PartialPropertiesSet ==
    { EmptyDict,
      [position |-> EmptyDict],
      [position |-> [x |-> JNum(Px(3))], dimensions |-> [height |-> JNum(Px(7))]],
      [position |-> [y |-> JNum(Px(4))], dimensions |-> EmptyDict, color |-> Gray],
      [position |-> [x |-> JNum(1), y |-> JNum(Px(2))],
       dimensions |-> [width |-> JNum(Px(20)), height |-> JNum(Px(10))],
       backgroundColor |-> Black, fontSize |-> JNum(Px(10))],
      [dimensions |-> [width |-> JNum(Px(30))], fontFamily |-> "Arial",
       text |-> "hello", altText |-> JStr(<<>>)],
      [position |-> [x |-> JNum(Px(5)), y |-> JNum(Px(6))],
       dimensions |-> [width |-> JNum(Px(8)), height |-> JNum(Px(9))],
       color |-> Black, backgroundColor |-> Gray, fontSize |-> JNum(Px(18)),
       fontFamily |-> "Georgia", text |-> "title",
       altText |-> JStr(<<"l", "o", "g", "o">>)] }

\* Every choice of id (absent, "a"), type (absent, text, image) and
\* properties (absent, or one of PartialPropertiesSet).
PartialRawSet ==
    LET ids == {EmptyDict, [id |-> JStr("a")]}
        types == {EmptyDict, [type |-> "text"], [type |-> "image"]}
        props == {EmptyDict} \cup {[properties |-> p] : p \in PartialPropertiesSet}
    IN {i @@ t @@ p : i \in ids, t \in types, p \in props}

InitTransform ==
    /\ pc = "call"
    /\ elements \in SeqUpTo(PartialRawSet, MaxRaw)
    /\ transformed = <<>>
    /\ options = EmptyDict
    /\ issues = <<>>
    /\ overall_score = -1
    /\ report = EmptyDict
    /\ ai_enabled = FALSE
    /\ ai_analysis = EmptyDict
    /\ ai_outcome = "none"
    /\ rules = analysis_rules
    /\ history = <<>>
    /\ first_color = None
    /\ second_color = None
    /\ ratio = -1
    /\ now = 0
    /\ start_time = 0
    /\ pipeline_time = 0
    /\ design_context = EmptyDict

\* transformed_elements = self._transform_elements(elements)
CallTransformElements ==
    /\ pc = "call"
    /\ IF transform_elements_raises(elements)
       THEN pc' = "raised" /\ UNCHANGED transformed
       ELSE pc' = "done" /\ transformed' = _transform_elements(elements)
    /\ UNCHANGED <<now, start_time, pipeline_time, design_context,
                   ai_outcome, rules, history, first_color, second_color, ratio,
                 elements, options, issues, overall_score, report, ai_enabled,
                 ai_analysis>>

NextTransform == CallTransformElements

SpecTransform == InitTransform /\ [][NextTransform]_vars

(***************************************************************************)
(* Claims about normalization.                                             *)
(***************************************************************************)
\* properties.position / properties.dimensions of a raw record, {} where a
\* level is absent.
RawBag(raw, bag) ==
    IF "properties" \in DOMAIN raw /\ bag \in DOMAIN raw.properties
    THEN raw.properties[bag] ELSE EmptyDict

RawHas(raw, key) ==
    "properties" \in DOMAIN raw /\ key \in DOMAIN raw.properties

\* The canonical form the specification gives for one raw record.
IsCanonicalOf(t, raw) ==
    /\ t.id = (IF "id" \in DOMAIN raw THEN raw.id ELSE JStr("unknown"))
    /\ t.type = (IF "type" \in DOMAIN raw THEN raw.type ELSE "unknown")
    /\ t.x = (IF "x" \in DOMAIN RawBag(raw, "position")
              THEN RawBag(raw, "position").x ELSE JNum(0))
    /\ t.y = (IF "y" \in DOMAIN RawBag(raw, "position")
              THEN RawBag(raw, "position").y ELSE JNum(0))
    /\ t.width = (IF "width" \in DOMAIN RawBag(raw, "dimensions")
                  THEN RawBag(raw, "dimensions").width ELSE JNum(100 * Scale))
    /\ t.height = (IF "height" \in DOMAIN RawBag(raw, "dimensions")
                   THEN RawBag(raw, "dimensions").height ELSE JNum(50 * Scale))
    /\ \A key \in {"color", "fontSize", "fontFamily", "text", "altText"} :
          /\ key \in DOMAIN t <=> RawHas(raw, key)
          /\ key \in DOMAIN t => t[key] = raw.properties[key]
    /\ "backgroundColor" \in DOMAIN t <=>
          (RawHas(raw, "backgroundColor") \/ t.type = "text")
    /\ "backgroundColor" \in DOMAIN t =>
          t.backgroundColor = (IF RawHas(raw, "backgroundColor")
                               THEN raw.properties.backgroundColor
                               ELSE White)
    /\ DOMAIN t \subseteq {"id", "type", "x", "y", "width", "height", "color",
                           "backgroundColor", "fontSize", "fontFamily", "text",
                           "altText"}

\* C5: on records whose fields are merely absent, _transform_elements does
\* not raise and returns a list of the same length whose i-th element is the
\* canonical form of the i-th input.
C5_TransformIsCanonical ==
    /\ pc # "raised"
    /\ pc = "done" =>
          /\ Len(transformed) = Len(elements)
          /\ \A i \in 1..Len(elements) : IsCanonicalOf(transformed[i], elements[i])

\* C5 witness: two different records, the first without properties and of
\* type text (so the white background is added), the second not of type text
\* and without a background, both transformed.
C5_Witness ==
    /\ pc = "done"
    /\ Len(elements) = 2
    /\ "properties" \notin DOMAIN elements[1]
    /\ transformed[1].type = "text"
    /\ transformed[1].backgroundColor = White
    /\ RawHas(elements[2], "position")
    /\ transformed[2].type = "image"
    /\ "backgroundColor" \notin DOMAIN transformed[2]

(***************************************************************************)
(* _check_contrast (backend.py 366-404).  A description or suggestion is   *)
(* the tuple of its f-string template and the values it embeds.            *)
(***************************************************************************)
\* TypeError: font_size >= 18 on a fontSize that is no number.
check_contrast_raises(element_list) ==
    \E i \in 1..Len(element_list) :
        /\ IsType(element_list[i], "text")
        /\ ~IsNum(Get(element_list[i], "fontSize", JNum(Px(16))))

\* Mutant of contrast_required_ratio: large text gets no lower requirement.
contrast_required_ratio_always_min(font_size) ==
    rules.contrast.min_ratio

\* Mutant of contrast_required_ratio: large text starts above 18, not at 18.
contrast_required_ratio_above18(font_size) ==
    IF font_size.num > Px(18)
    THEN rules.contrast.large_text_ratio
    ELSE rules.contrast.min_ratio

contrast_required_ratio(font_size) ==
    IF font_size.num >= Px(18)
    THEN rules.contrast.large_text_ratio
    ELSE rules.contrast.min_ratio

\* The body of the loop: the issues one text element adds.
contrast_issues_of(element) ==
    LET text_color == Get(element, "color", Black)
        bg_color == Get(element, "backgroundColor", White)
        font_size == Get(element, "fontSize", JNum(Px(16)))
        contrast_ratio == _calculate_contrast_ratio(text_color, bg_color)
        required_ratio == contrast_required_ratio(font_size)
    IN IF contrast_ratio < required_ratio
       THEN << [id |-> <<"contrast-", Get(element, "id", JStr("unknown"))>>,
                type |-> "contrast",
                severity |-> IF contrast_ratio < 300 THEN "critical" ELSE "high",
                title |-> "Low color contrast detected",
                description |->
                    <<"Text contrast ratio is {:.1f}:1, below WCAG requirement of {}:1",
                      contrast_ratio, required_ratio>>,
                suggestion |->
                    <<"Increase contrast to at least {}:1 by using darker text or lighter background colors",
                      required_ratio>>,
                elementId |-> Get(element, "id", None)] >>
       ELSE <<>>

RECURSIVE contrast_loop(_, _)
contrast_loop(text_elements, result) ==
    IF Len(text_elements) = 0 THEN result
    ELSE contrast_loop(Tail(text_elements),
                       result \o contrast_issues_of(Head(text_elements)))

_check_contrast(element_list) == contrast_loop(TextElements(element_list), <<>>)

(***************************************************************************)
(* _check_typography (backend.py 406-465).                                 *)
(***************************************************************************)
\* TypeError: font_size < 12 on a fontSize that is no number.
check_typography_raises(element_list) ==
    \E i \in 1..Len(element_list) :
        /\ IsType(element_list[i], "text")
        /\ ~IsNum(Get(element_list[i], "fontSize", JNum(Px(16))))

\* font_families after the loop: the families in order of first appearance.
RECURSIVE font_families_of(_, _)
font_families_of(text_elements, font_families) ==
    IF Len(text_elements) = 0 THEN font_families
    ELSE LET font_family == Get(Head(text_elements), "fontFamily", "Unknown")
         IN font_families_of(Tail(text_elements),
                IF \E k \in 1..Len(font_families) : font_families[k] = font_family
                THEN font_families
                ELSE Append(font_families, font_family))

is_small_text(element) ==
    Get(element, "fontSize", JNum(Px(16))).num
        < Px(rules.typography.min_font_size)

\* small_text_elements after the loop.
small_text_elements_of(text_elements) == SelectSeq(text_elements, is_small_text)

font_variety_issue(font_families) ==
    [id |-> <<"typography-font-variety">>,
     type |-> "typography",
     severity |-> "medium",
     title |-> "Too many font families",
     description |->
        <<"{} different font families detected: {}",
          Len(font_families), font_families>>,
     suggestion |->
        <<"Limit to {} font families maximum for better visual consistency",
          rules.typography.max_fonts>>]

small_text_issue(element) ==
    [id |-> <<"typography-small-", Get(element, "id", JStr("unknown"))>>,
     type |-> "typography",
     severity |-> "medium",
     title |-> "Text size too small",
     description |->
        <<"Text size is {}px, which may be difficult to read",
          Get(element, "fontSize", JNum(0))>>,
     suggestion |->
        <<"Use minimum {}px for body text, 16px for mobile",
          rules.typography.min_font_size>>,
     elementId |-> Get(element, "id", None)]

\* Mutant of has_too_many_fonts: max_fonts families are already too many.
has_too_many_fonts_inclusive(font_families) ==
    Len(font_families) >= rules.typography.max_fonts

has_too_many_fonts(font_families) ==
    Len(font_families) > rules.typography.max_fonts

_check_typography(element_list) ==
    LET text_elements == TextElements(element_list)
        font_families == font_families_of(text_elements, <<>>)
        small_text_elements == small_text_elements_of(text_elements)
    IN IF Len(text_elements) = 0 THEN <<>>
       ELSE (IF has_too_many_fonts(font_families)
             THEN <<font_variety_issue(font_families)>> ELSE <<>>)
            \o [k \in 1..Len(small_text_elements) |->
                    small_text_issue(small_text_elements[k])]

(***************************************************************************)
(* Specification SpecContrast: _check_contrast applied to every list of at *)
(* most MaxContrast elements of ContrastElementSet.  Against white the     *)
(* colors give the ratios 21 (black), 4.54, 4.48, 3.54 (Gray), 3.0, 2.96   *)
(* and 2.85; font sizes are absent, 17.5 and 18.                           *)
(***************************************************************************)
Color454 == JStr(<<"#", "7", "6", "7", "6", "7", "6">>)
Color448 == JStr(<<"#", "7", "7", "7">>)
Color300 == JStr(<<"#", "9", "5", "9", "5", "9", "5">>)
Color296 == JStr(<<"9", "6", "9", "6", "9", "6">>)
Color285 == JStr(<<"#", "9", "9", "9">>)

ContrastElementSet ==
    LET sizes == {EmptyDict, [fontSize |-> JNum(Px(18) - 1)],
                  [fontSize |-> JNum(Px(18))]}
        colors == {EmptyDict} \cup
                  {[color |-> c] : c \in {Color454, Color448, Gray, Color300,
                                          Color296, Color285}}
        on_white == {[id |-> JStr("a"), type |-> "text"] @@ c @@ z :
                        c \in colors, z \in sizes}
        on_gray == {[id |-> JStr("b"), type |-> "text", backgroundColor |-> Gray]
                        @@ c @@ z :
                        c \in {EmptyDict, [color |-> White], [color |-> Gray]},
                        z \in {EmptyDict, [fontSize |-> JNum(Px(18))]}}
        others == {[type |-> "text", color |-> Gray, backgroundColor |-> White],
                   [id |-> JStr("c"), type |-> "image", color |-> Gray,
                    backgroundColor |-> White],
                   [id |-> JStr("d"), color |-> Color285]}
    IN on_white \cup on_gray \cup others

InitContrast ==
    /\ pc = "call"
    /\ elements \in SeqUpTo(ContrastElementSet, MaxContrast)
    /\ issues = <<>>
    /\ options = EmptyDict
    /\ transformed = <<>>
    /\ overall_score = -1
    /\ report = EmptyDict
    /\ ai_enabled = FALSE
    /\ ai_analysis = EmptyDict
    /\ ai_outcome = "none"
    /\ rules = analysis_rules
    /\ history = <<>>
    /\ first_color = None
    /\ second_color = None
    /\ ratio = -1
    /\ now = 0
    /\ start_time = 0
    /\ pipeline_time = 0
    /\ design_context = EmptyDict

\* issues = self._check_contrast(elements)
CallCheckContrast ==
    /\ pc = "call"
    /\ IF check_contrast_raises(elements)
       THEN pc' = "raised" /\ UNCHANGED issues
       ELSE pc' = "done" /\ issues' = _check_contrast(elements)
    /\ UNCHANGED <<now, start_time, pipeline_time, design_context,
                   ai_outcome, rules, history, first_color, second_color, ratio,
                 elements, options, transformed, overall_score, report, ai_enabled,
                 ai_analysis>>

NextContrast == CallCheckContrast

SpecContrast == InitContrast /\ [][NextContrast]_vars

(***************************************************************************)
(* Claims about the contrast checker.                                      *)
(***************************************************************************)
\* The k-th smallest member of a finite set of integers.
RECURSIVE KthOf(_, _)
KthOf(S, k) ==
    LET m == CHOOSE x \in S : \A y \in S : x <= y
    IN IF k = 1 THEN m ELSE KthOf(S \ {m}, k - 1)

\* The ratio of an element's color (default #000000) against its
\* backgroundColor (default #FFFFFF).
ClaimedRatio(e) ==
    _calculate_contrast_ratio(
        IF "color" \in DOMAIN e THEN e.color ELSE Black,
        IF "backgroundColor" \in DOMAIN e THEN e.backgroundColor ELSE White)

\* 3.0 when fontSize >= 18 and 4.5 otherwise.
ClaimedRequired(e) ==
    IF "fontSize" \in DOMAIN e /\ e.fontSize.num >= 18 * Scale THEN 300 ELSE 450

\* The elements the claim says are flagged: those of type text whose ratio
\* is below the required ratio.
ContrastFailing(element_list) ==
    {i \in 1..Len(element_list) :
        /\ "type" \in DOMAIN element_list[i]
        /\ element_list[i].type = "text"
        /\ ClaimedRatio(element_list[i]) < ClaimedRequired(element_list[i])}

ElementIdOr(e, default) == IF "id" \in DOMAIN e THEN e.id ELSE default

\* C7: the returned list holds exactly one issue per failing text element
\* (in element order), named contrast-<id>, of severity critical when the
\* ratio is below 3.0 and high otherwise, and nothing else.
C7_ContrastIssues ==
    pc = "done" =>
        LET failing == ContrastFailing(elements)
        IN /\ Len(issues) = Cardinality(failing)
           /\ \A k \in 1..Len(issues) :
                LET e == elements[KthOf(failing, k)]
                IN /\ issues[k].id = <<"contrast-", ElementIdOr(e, JStr("unknown"))>>
                   /\ issues[k].type = "contrast"
                   /\ issues[k].severity =
                        (IF ClaimedRatio(e) < 300 THEN "critical" ELSE "high")
                   /\ issues[k].elementId = ElementIdOr(e, None)

\* C7 witness: a large text at ratio exactly 3.0 (passes) followed by a small
\* text at 3.0 (flagged high): one issue, for the second element.
C7_Witness ==
    /\ pc = "done"
    /\ Len(elements) = 2
    /\ elements[1] = [id |-> JStr("a"), type |-> "text", color |-> Color300,
                      fontSize |-> JNum(18 * Scale)]
    /\ elements[2] = [id |-> JStr("a"), type |-> "text", color |-> Color300,
                      fontSize |-> JNum(18 * Scale - 1)]
    /\ Len(issues) = 1
    /\ issues[1].severity = "high"

(***************************************************************************)
(* Specification SpecTypography: _check_typography applied to every list   *)
(* of at most MaxTypography elements of TypographyElementSet.              *)
(***************************************************************************)
TypographyElementSet ==
    { [id |-> JStr("a"), type |-> "text"],
      [id |-> JStr("b"), type |-> "text", fontFamily |-> "Arial"],
      [id |-> JStr("c"), type |-> "text", fontFamily |-> "Georgia"],
      [id |-> JStr("d"), type |-> "text", fontFamily |-> "Verdana"],
      [id |-> JStr("e"), type |-> "text", fontFamily |-> "Courier",
       fontSize |-> JNum(Px(12))],
      [id |-> JStr("f"), type |-> "text", fontFamily |-> "Arial",
       fontSize |-> JNum(Px(12) - 1)],
      [id |-> JStr("g"), type |-> "text", fontSize |-> JNum(Px(10))],
      [type |-> "text", fontFamily |-> "Georgia", fontSize |-> JNum(Px(11))],
      [id |-> JStr("h"), type |-> "image", fontFamily |-> "Impact",
       fontSize |-> JNum(Px(8))] }

InitTypography ==
    /\ pc = "call"
    /\ elements \in SeqUpTo(TypographyElementSet, MaxTypography)
    /\ issues = <<>>
    /\ options = EmptyDict
    /\ transformed = <<>>
    /\ overall_score = -1
    /\ report = EmptyDict
    /\ ai_enabled = FALSE
    /\ ai_analysis = EmptyDict
    /\ ai_outcome = "none"
    /\ rules = analysis_rules
    /\ history = <<>>
    /\ first_color = None
    /\ second_color = None
    /\ ratio = -1
    /\ now = 0
    /\ start_time = 0
    /\ pipeline_time = 0
    /\ design_context = EmptyDict

\* issues = self._check_typography(elements)
CallCheckTypography ==
    /\ pc = "call"
    /\ IF check_typography_raises(elements)
       THEN pc' = "raised" /\ UNCHANGED issues
       ELSE pc' = "done" /\ issues' = _check_typography(elements)
    /\ UNCHANGED <<now, start_time, pipeline_time, design_context,
                   ai_outcome, rules, history, first_color, second_color, ratio,
                 elements, options, transformed, overall_score, report, ai_enabled,
                 ai_analysis>>

NextTypography == CallCheckTypography

SpecTypography == InitTypography /\ [][NextTypography]_vars

(***************************************************************************)
(* Claims about the typography checker.                                    *)
(***************************************************************************)
TextIdx(element_list) ==
    {i \in 1..Len(element_list) :
        "type" \in DOMAIN element_list[i] /\ element_list[i].type = "text"}

\* The text elements whose fontSize is below 12.
SmallIdx(element_list) ==
    {i \in TextIdx(element_list) :
        /\ "fontSize" \in DOMAIN element_list[i]
        /\ element_list[i].fontSize.num < 12 * Scale}

\* The fontFamily values that text elements carry.
SuppliedFamilies(element_list) ==
    {element_list[i].fontFamily :
        i \in {j \in TextIdx(element_list) : "fontFamily" \in DOMAIN element_list[j]}}

\* The same, a text element without fontFamily counting as family "Unknown".
FamiliesWithDefault(element_list) ==
    SuppliedFamilies(element_list) \cup
    (IF \E i \in TextIdx(element_list) : "fontFamily" \notin DOMAIN element_list[i]
     THEN {"Unknown"} ELSE {})

\* The result is: the font-variety issue if and only if `variety`, then one
\* typography-small-<id> issue per small text element in element order.
TypographyResultIs(variety) ==
    LET small == SmallIdx(elements)
        off == IF variety THEN 1 ELSE 0
    IN /\ Len(issues) = off + Cardinality(small)
       /\ variety =>
            /\ issues[1].id = <<"typography-font-variety">>
            /\ issues[1].severity = "medium"
            /\ issues[1].type = "typography"
            /\ "elementId" \notin DOMAIN issues[1]
       /\ \A k \in 1..Cardinality(small) :
            LET e == elements[KthOf(small, k)]
            IN /\ issues[off + k].id =
                    <<"typography-small-", ElementIdOr(e, JStr("unknown"))>>
               /\ issues[off + k].severity = "medium"
               /\ issues[off + k].type = "typography"
               /\ issues[off + k].elementId = ElementIdOr(e, None)

\* C8 as stated: the font-variety issue is emitted if and only if more than
\* 3 distinct fontFamily values occur among the text elements, followed by
\* the small-text issues.
C8_Original ==
    pc = "done" =>
        TypographyResultIs(Cardinality(SuppliedFamilies(elements)) > 3)

\* C8 amended: the same, where a text element without fontFamily counts as
\* one more family, "Unknown".
C8_TypographyIssues ==
    pc = "done" =>
        TypographyResultIs(Cardinality(FamiliesWithDefault(elements)) > 3)

\* C8 witness: three supplied families and one text element without a
\* family, one of the four with a small font: both kinds of issue occur.
C8_Witness ==
    /\ pc = "done"
    /\ Len(elements) = 4
    /\ Cardinality(SuppliedFamilies(elements)) = 3
    /\ Cardinality(FamiliesWithDefault(elements)) = 4
    /\ Len(issues) = 2
    /\ issues[1].id = <<"typography-font-variety">>
    /\ issues[2].id[1] = "typography-small-"

(***************************************************************************)
(* Positioned elements of _check_spacing and _check_alignment              *)
(* (backend.py 472 and 575).                                               *)
(***************************************************************************)
\* e.get('properties', {}).get('position') is truthy
has_position(e) ==
    Truthy(Get(Get(e, "properties", EmptyDict), "position", None))

positioned_elements_of(element_list) == SelectSeq(element_list, has_position)

\* AttributeError: e.get('properties', {}) is no dict.
positioned_elements_raises(element_list) ==
    \E i \in 1..Len(element_list) :
        ~IsDict(Get(element_list[i], "properties", EmptyDict))

\* TypeError / KeyError: a position that is no dict, or lacks x or y, or
\* holds an x or y that is no number.
position_access_raises(positioned_elements) ==
    \E i \in 1..Len(positioned_elements) :
        LET pos == positioned_elements[i].properties.position
        IN \/ ~IsDict(pos)
           \/ "x" \notin DOMAIN pos
           \/ "y" \notin DOMAIN pos
           \/ ~IsNum(pos.x)
           \/ ~IsNum(pos.y)

(***************************************************************************)
(* _check_spacing (backend.py 467-518).                                    *)
(***************************************************************************)
check_spacing_raises(element_list) ==
    \/ positioned_elements_raises(element_list)
    \/ /\ Len(positioned_elements_of(element_list)) >= 2
       /\ position_access_raises(positioned_elements_of(element_list))

\* The inner loop: element1 against each later element2.
RECURSIVE spacing_inner(_, _, _)
spacing_inner(element1, later, spacings) ==
    IF Len(later) = 0 THEN spacings
    ELSE LET pos1 == element1.properties.position
             pos2 == Head(later).properties.position
             h_distance == Abs(pos1.x.num - pos2.x.num)
             v_distance == Abs(pos1.y.num - pos2.y.num)
         IN spacing_inner(element1, Tail(later),
                          spacings \o <<h_distance, v_distance>>)

\* The outer loop: spacings after all pairs.
RECURSIVE spacing_outer(_, _)
spacing_outer(positioned_elements, spacings) ==
    IF Len(positioned_elements) = 0 THEN spacings
    ELSE spacing_outer(Tail(positioned_elements),
            spacing_inner(Head(positioned_elements), Tail(positioned_elements),
                          spacings))

\* [s for s in spacings if 0 < s < min_spacing]
close_elements_of(spacings) ==
    SelectSeq(spacings,
        LAMBDA s : 0 < s /\ s < Px(rules.spacing.min_spacing))

\* Mutant of unique_spacings_of: distances compared without truncation.
unique_spacings_untruncated(spacings) ==
    {spacings[k] : k \in {j \in 1..Len(spacings) : spacings[j] > 0}}

\* set(int(s) for s in spacings if s > 0)
unique_spacings_of(spacings) ==
    {spacings[k] \div Scale : k \in {j \in 1..Len(spacings) : spacings[j] > 0}}

_check_spacing(element_list) ==
    LET positioned_elements == positioned_elements_of(element_list)
        spacings == spacing_outer(positioned_elements, <<>>)
        min_spacing == rules.spacing.min_spacing
        close_elements == close_elements_of(spacings)
        unique_spacings == unique_spacings_of(spacings)
    IN IF Len(positioned_elements) < 2 THEN <<>>
       ELSE IF Len(spacings) = 0 THEN <<>>
       ELSE (IF Len(close_elements) > 0
             THEN << [id |-> <<"spacing-cramped">>,
                      type |-> "spacing",
                      severity |-> "low",
                      title |-> "Elements too close together",
                      description |->
                         <<"Found {} instances of elements closer than {}px",
                           Len(close_elements), min_spacing>>,
                      suggestion |->
                         <<"Increase spacing to at least {}px for better visual breathing room",
                           min_spacing>>] >>
             ELSE <<>>)
            \o
            (IF Cardinality(unique_spacings) > 6
             THEN << [id |-> <<"spacing-inconsistent">>,
                      type |-> "spacing",
                      severity |-> "medium",
                      title |-> "Inconsistent spacing detected",
                      description |->
                         <<"Multiple different spacing values found: {} variations",
                           Cardinality(unique_spacings)>>,
                      suggestion |->
                         <<"Use consistent spacing based on an 8px grid system (8px, 16px, 24px, etc.)">>] >>
             ELSE <<>>)

(***************************************************************************)
(* _check_alignment (backend.py 571-612).                                  *)
(***************************************************************************)
check_alignment_raises(element_list) ==
    \/ positioned_elements_raises(element_list)
    \/ /\ Len(positioned_elements_of(element_list)) >= 3
       /\ position_access_raises(positioned_elements_of(element_list))

\* Mutant of is_near_miss: a difference equal to the tolerance is not counted.
is_near_miss_exclusive(pos1, pos2) ==
    LET diff == Abs(pos1 - pos2)
    IN Px(1) <= diff /\ diff < Px(rules.alignment.tolerance)

\* 1 <= diff <= tolerance
is_near_miss(pos1, pos2) ==
    LET diff == Abs(pos1 - pos2)
    IN Px(1) <= diff /\ diff <= Px(rules.alignment.tolerance)

\* One of the two double loops: the near misses among `positions`, added to
\* misaligned_elements.
RECURSIVE count_near_misses(_, _)
count_near_misses(positions, misaligned_elements) ==
    IF Len(positions) = 0 THEN misaligned_elements
    ELSE count_near_misses(Tail(positions),
            misaligned_elements
              + Cardinality({k \in 2..Len(positions) :
                                is_near_miss(positions[1], positions[k])}))

_check_alignment(element_list) ==
    LET positioned_elements == positioned_elements_of(element_list)
        x_positions == [k \in 1..Len(positioned_elements) |->
                            positioned_elements[k].properties.position.x.num]
        y_positions == [k \in 1..Len(positioned_elements) |->
                            positioned_elements[k].properties.position.y.num]
        misaligned_elements ==
            count_near_misses(y_positions, count_near_misses(x_positions, 0))
    IN IF Len(positioned_elements) < 3 THEN <<>>
       ELSE IF misaligned_elements > 2
       THEN << [id |-> <<"alignment-misaligned">>,
                type |-> "alignment",
                severity |-> "medium",
                title |-> "Elements not properly aligned",
                description |->
                   <<"Found {} instances of elements that are close but not perfectly aligned",
                     misaligned_elements>>,
                suggestion |->
                   <<"Use grid guidelines and alignment tools to create consistent visual relationships">>] >>
       ELSE <<>>

(***************************************************************************)
(* Specification SpecSpacing: _check_spacing applied to every list of at   *)
(* most MaxSpacing elements of SpacingElementSet: x in {0, 1/Scale, 20,    *)
(* 50, 110} px and y in {0, 8} px, one element at (20, 20 + 1/Scale) px,   *)
(* and two elements the checker does not treat as positioned (no           *)
(* properties; an empty position).                                         *)
(***************************************************************************)
Positioned(id, x, y) ==
    [id |-> JStr(id), type |-> "rectangle",
     properties |-> [position |-> [x |-> JNum(x), y |-> JNum(y)]]]

Unpositioned ==
    { [id |-> JStr("u"), type |-> "rectangle"],
      [id |-> JStr("v"), type |-> "rectangle",
       properties |-> [position |-> EmptyDict]] }

SpacingElementSet ==
    {Positioned("p", x, y) : x \in {0, 1, Px(20), Px(50), Px(110)},
                             y \in {0, Px(8)}}
    \cup {Positioned("p", Px(20), Px(20) + 1)}
    \cup Unpositioned

InitSpacing ==
    /\ pc = "call"
    /\ elements \in SeqUpTo(SpacingElementSet, MaxSpacing)
    /\ issues = <<>>
    /\ options = EmptyDict
    /\ transformed = <<>>
    /\ overall_score = -1
    /\ report = EmptyDict
    /\ ai_enabled = FALSE
    /\ ai_analysis = EmptyDict
    /\ ai_outcome = "none"
    /\ rules = analysis_rules
    /\ history = <<>>
    /\ first_color = None
    /\ second_color = None
    /\ ratio = -1
    /\ now = 0
    /\ start_time = 0
    /\ pipeline_time = 0
    /\ design_context = EmptyDict

\* issues = self._check_spacing(elements)
CallCheckSpacing ==
    /\ pc = "call"
    /\ IF check_spacing_raises(elements)
       THEN pc' = "raised" /\ UNCHANGED issues
       ELSE pc' = "done" /\ issues' = _check_spacing(elements)
    /\ UNCHANGED <<now, start_time, pipeline_time, design_context,
                   ai_outcome, rules, history, first_color, second_color, ratio,
                 elements, options, transformed, overall_score, report, ai_enabled,
                 ai_analysis>>

NextSpacing == CallCheckSpacing

SpecSpacing == InitSpacing /\ [][NextSpacing]_vars

(***************************************************************************)
(* Claims about the spacing checker.                                       *)
(***************************************************************************)
\* The elements with a non-empty position, by index.
PositionedIdx(element_list) ==
    {i \in 1..Len(element_list) :
        /\ "properties" \in DOMAIN element_list[i]
        /\ "position" \in DOMAIN element_list[i].properties
        /\ DOMAIN element_list[i].properties.position # {}}

Coord(element_list, i, axis) == element_list[i].properties.position[axis].num

\* The observations: one per unordered pair of positioned elements and axis.
Observations(element_list) ==
    {<<i, j, axis>> \in PositionedIdx(element_list) \X PositionedIdx(element_list)
                          \X {"x", "y"} : i < j}

ObservationValue(element_list, o) ==
    LET d == Coord(element_list, o[1], o[3]) - Coord(element_list, o[2], o[3])
    IN IF d < 0 THEN -d ELSE d

\* The observations strictly between 0 and 8.
CrampedObservations(element_list) ==
    {o \in Observations(element_list) :
        /\ 0 < ObservationValue(element_list, o)
        /\ ObservationValue(element_list, o) < 8 * Scale}

\* The integer truncations of the observations.
TruncatedValues(element_list) ==
    {ObservationValue(element_list, o) \div Scale : o \in Observations(element_list)}

\* The integer truncations of the positive observations.
TruncationsOfPositive(element_list) ==
    {ObservationValue(element_list, o) \div Scale :
        o \in {q \in Observations(element_list) :
                    ObservationValue(element_list, q) > 0}}

\* The result is: nothing for fewer than 2 positioned elements; otherwise one
\* low spacing-cramped issue (reporting the number of cramped observations)
\* if and only if there is a cramped observation, then one medium
\* spacing-inconsistent issue if and only if `inconsistent`.
SpacingResultIs(inconsistent) ==
    LET n == Cardinality(PositionedIdx(elements))
        cramped == n >= 2 /\ CrampedObservations(elements) # {}
        incons == n >= 2 /\ inconsistent
        off == IF cramped THEN 1 ELSE 0
    IN /\ Cardinality(Observations(elements)) = n * (n - 1)
       /\ Len(issues) = off + (IF incons THEN 1 ELSE 0)
       /\ cramped =>
            /\ issues[1].id = <<"spacing-cramped">>
            /\ issues[1].severity = "low"
            /\ issues[1].type = "spacing"
            /\ issues[1].description[2] = Cardinality(CrampedObservations(elements))
       /\ incons =>
            /\ issues[off + 1].id = <<"spacing-inconsistent">>
            /\ issues[off + 1].severity = "medium"
            /\ issues[off + 1].type = "spacing"

\* C9 as stated: spacing-inconsistent is emitted if and only if more than 6
\* distinct positive values occur among the integer-truncated observations.
C9_Original ==
    pc = "done" =>
        SpacingResultIs(
            Cardinality({v \in TruncatedValues(elements) : v > 0}) > 6)

\* C9 amended: spacing-inconsistent is emitted if and only if more than 6
\* distinct values occur among the integer truncations of the positive
\* observations, an observation strictly between 0 and 1 giving the value 0.
C9_SpacingIssues ==
    pc = "done" =>
        SpacingResultIs(Cardinality(TruncationsOfPositive(elements)) > 6)

\* C9 witness: four positioned elements with an observation between 0 and 1
\* whose truncation 0 is the seventh distinct value: both issues are emitted.
C9_Witness ==
    /\ pc = "done"
    /\ Cardinality(PositionedIdx(elements)) = 4
    /\ 0 \in TruncationsOfPositive(elements)
    /\ Cardinality(TruncationsOfPositive(elements)) = 7
    /\ Len(issues) = 2
    /\ issues[1].id = <<"spacing-cramped">>
    /\ issues[2].id = <<"spacing-inconsistent">>

(***************************************************************************)
(* Specification SpecAlignment: _check_alignment applied to every list of  *)
(* at most MaxAlignment elements of AlignmentElementSet: x in {100,        *)
(* 100 + 1/Scale, 102, 105, 105 + 1/Scale, 150} px and y in {0, 2} px, and *)
(* the two elements not treated as positioned.                             *)
(***************************************************************************)
AlignmentElementSet ==
    {Positioned("p", x, y) :
        x \in {Px(100), Px(100) + 1, Px(102), Px(105), Px(105) + 1, Px(150)},
        y \in {0, Px(2)}}
    \cup Unpositioned

InitAlignment ==
    /\ pc = "call"
    /\ elements \in SeqUpTo(AlignmentElementSet, MaxAlignment)
    /\ issues = <<>>
    /\ options = EmptyDict
    /\ transformed = <<>>
    /\ overall_score = -1
    /\ report = EmptyDict
    /\ ai_enabled = FALSE
    /\ ai_analysis = EmptyDict
    /\ ai_outcome = "none"
    /\ rules = analysis_rules
    /\ history = <<>>
    /\ first_color = None
    /\ second_color = None
    /\ ratio = -1
    /\ now = 0
    /\ start_time = 0
    /\ pipeline_time = 0
    /\ design_context = EmptyDict

\* issues = self._check_alignment(elements)
CallCheckAlignment ==
    /\ pc = "call"
    /\ IF check_alignment_raises(elements)
       THEN pc' = "raised" /\ UNCHANGED issues
       ELSE pc' = "done" /\ issues' = _check_alignment(elements)
    /\ UNCHANGED <<now, start_time, pipeline_time, design_context,
                   ai_outcome, rules, history, first_color, second_color, ratio,
                 elements, options, transformed, overall_score, report, ai_enabled,
                 ai_analysis>>

NextAlignment == CallCheckAlignment

SpecAlignment == InitAlignment /\ [][NextAlignment]_vars

(***************************************************************************)
(* Claims about the alignment checker.                                     *)
(***************************************************************************)
\* The near misses: the observations whose value lies in [1, 5].
NearMisses(element_list) ==
    {o \in Observations(element_list) :
        /\ 1 * Scale <= ObservationValue(element_list, o)
        /\ ObservationValue(element_list, o) <= 5 * Scale}

\* C10: nothing for fewer than 3 positioned elements; otherwise exactly one
\* medium alignment-misaligned issue reporting the number of near misses
\* over both axes if and only if that number exceeds 2.
C10_AlignmentIssues ==
    pc = "done" =>
        LET n == Cardinality(PositionedIdx(elements))
            total == Cardinality(NearMisses(elements))
        IN IF n >= 3 /\ total > 2
           THEN /\ Len(issues) = 1
                /\ issues[1].id = <<"alignment-misaligned">>
                /\ issues[1].severity = "medium"
                /\ issues[1].type = "alignment"
                /\ issues[1].description[2] = total
           ELSE issues = <<>>

\* C10 witness: three positioned elements with exactly three near misses,
\* one of them a difference of exactly 5, and a pair that differs by less
\* than 1 on x (not counted): the issue is emitted and reports 3.
C10_Witness ==
    /\ pc = "done"
    /\ Cardinality(PositionedIdx(elements)) = 3
    /\ Cardinality(NearMisses(elements)) = 3
    /\ \E o \in NearMisses(elements) : ObservationValue(elements, o) = 5 * Scale
    /\ \E o \in Observations(elements) :
          o[3] = "x" /\ ObservationValue(elements, o) \in 1..(Scale - 1)
    /\ Len(issues) = 1
    /\ issues[1].description[2] = 3

(***************************************************************************)
(* _check_accessibility (backend.py 520-569).                              *)
(***************************************************************************)
Whitespace == {" ", "\t", "\n", "\r"}

\* s.strip()
RECURSIVE lstrip_space(_)
lstrip_space(s) ==
    IF Len(s) > 0 /\ Head(s) \in Whitespace THEN lstrip_space(Tail(s)) ELSE s

RECURSIVE rstrip_space(_)
rstrip_space(s) ==
    IF Len(s) > 0 /\ s[Len(s)] \in Whitespace
    THEN rstrip_space(SubSeq(s, 1, Len(s) - 1)) ELSE s

strip(s) == rstrip_space(lstrip_space(s))

\* not alt_text or alt_text.strip() == ''
lacks_alt_text(element) ==
    LET properties == Get(element, "properties", EmptyDict)
        alt_text == Get(properties, "altText", JStr(<<>>))
    IN ~Truthy(alt_text) \/ Len(strip(alt_text.str)) = 0

\* contrast_ratio < 4.5 on the colors found in element['properties']
has_low_contrast(element) ==
    LET properties == Get(element, "properties", EmptyDict)
        text_color == Get(properties, "color", Black)
        bg_color == Get(properties, "backgroundColor", White)
    IN _calculate_contrast_ratio(text_color, bg_color) < 450

\* AttributeError: properties that is no dict (image and text elements), or
\* a truthy altText without strip().
check_accessibility_raises(element_list) ==
    \E i \in 1..Len(element_list) :
        LET e == element_list[i]
            properties == Get(e, "properties", EmptyDict)
        IN \/ /\ IsType(e, "image") \/ IsType(e, "text")
              /\ ~IsDict(properties)
           \/ /\ IsType(e, "image")
              /\ IsDict(properties)
              /\ Truthy(Get(properties, "altText", JStr(<<>>)))
              /\ ~IsStr(Get(properties, "altText", JStr(<<>>)))

_check_accessibility(element_list) ==
    LET image_elements == SelectSeq(element_list, LAMBDA e : IsType(e, "image"))
        images_without_alt == SelectSeq(image_elements, lacks_alt_text)
        text_elements == TextElements(element_list)
        low_contrast_count == Len(SelectSeq(text_elements, has_low_contrast))
    IN (IF Len(images_without_alt) > 0
        THEN << [id |-> <<"accessibility-alt-text">>,
                 type |-> "accessibility",
                 severity |-> IF Len(images_without_alt) > 2
                              THEN "critical" ELSE "high",
                 title |-> "Missing alt text for images",
                 description |->
                    <<"{} images found without alternative text descriptions",
                      Len(images_without_alt)>>,
                 suggestion |->
                    <<"Add descriptive alt text for all images to improve screen reader accessibility">>] >>
        ELSE <<>>)
       \o
       (IF low_contrast_count > 0
        THEN << [id |-> <<"accessibility-contrast">>,
                 type |-> "accessibility",
                 severity |-> "high",
                 title |-> "WCAG contrast requirements not met",
                 description |->
                    <<"{} text elements with insufficient contrast for accessibility",
                      low_contrast_count>>,
                 suggestion |->
                    <<"Ensure all text meets WCAG 2.1 AA contrast requirements (4.5:1 for normal text)">>] >>
        ELSE <<>>)

(***************************************************************************)
(* analyze_with_ai (backend.py 52-152), by its three ways of returning:    *)
(* AI disabled; an exception inside the try block; a parsed response.      *)
(* `response` stands for the parsed reply of the service.                  *)
(***************************************************************************)
\* for issue in issues: issue_categories[issue.get('category', 'general')]
\*     .append(issue)
RECURSIVE group_by_category(_, _)
group_by_category(issue_list, issue_categories) ==
    IF Len(issue_list) = 0 THEN issue_categories
    ELSE LET issue == Head(issue_list)
             category == Get(issue, "category", "general")
             group == Get(issue_categories, category, <<>>)
         IN group_by_category(Tail(issue_list),
                (category :> Append(group, issue)) @@ issue_categories)

\* _prepare_design_context (backend.py 154-178)
_prepare_design_context(element_list, issue_list) ==
    [element_count |-> Len(element_list),
     text_elements |-> Len(TextElements(element_list)),
     image_elements |->
        Len(SelectSeq(element_list, LAMBDA e : IsType(e, "image"))),
     shape_elements |->
        Len(SelectSeq(element_list,
                LAMBDA e : IsType(e, "rectangle") \/ IsType(e, "circle")
                              \/ IsType(e, "shape"))),
     total_issues |-> Len(issue_list),
     issue_categories |-> group_by_category(issue_list, EmptyDict),
     elements_sample |-> SubSeq(element_list, 1, Min(5, Len(element_list)))]

\* Mutant of analyze_with_ai: an exception in the try block is not caught
\* into the failed segment; the segment of a successful reply is built.
analyze_with_ai_error_as_reply(enabled, outcome, response) ==
    IF ~enabled
    THEN [ai_enabled |-> FALSE,
          summary |-> "AI analysis is disabled. Please set a valid GEMINI_API_KEY in your .env file.",
          suggestions |-> <<>>,
          overall_feedback |-> "Rule-based analysis completed successfully."]
    ELSE [ai_enabled |-> TRUE,
          summary |-> Get(response, "summary", ""),
          suggestions |-> Get(response, "suggestions", <<>>),
          overall_feedback |-> Get(response, "overall_feedback", ""),
          design_principles |-> Get(response, "design_principles", <<>>)]

analyze_with_ai(enabled, outcome, response) ==
    IF ~enabled
    THEN [ai_enabled |-> FALSE,
          summary |-> "AI analysis is disabled. Please set a valid GEMINI_API_KEY in your .env file.",
          suggestions |-> <<>>,
          overall_feedback |-> "Rule-based analysis completed successfully."]
    ELSE IF outcome = "error"
    THEN [ai_enabled |-> FALSE,
          summary |-> "AI analysis failed: {}",
          suggestions |-> <<>>,
          overall_feedback |-> "Falling back to rule-based analysis only."]
    ELSE [ai_enabled |-> TRUE,
          summary |-> Get(response, "summary", ""),
          suggestions |-> Get(response, "suggestions", <<>>),
          overall_feedback |-> Get(response, "overall_feedback", ""),
          design_principles |-> Get(response, "design_principles", <<>>)]

AiResponseSet ==
    { EmptyDict,
      [summary |-> "s", suggestions |-> <<"one", "two">>,
       overall_feedback |-> "f", design_principles |-> <<"p">>] }

(***************************************************************************)
(* analyze_design (backend.py 309-364), one action per statement.  The     *)
(* report's timestamp (a wall-clock reading) is not part of the record     *)
(* modelled here; analysisTime is in hundredths of a second.               *)
(***************************************************************************)
\* Mutant of extend: the new issues are put in front of the list.
extend_front(issue_list, more) == more \o issue_list

\* issues.extend(more)
extend(issue_list, more) == issue_list \o more

\* Mutant of passed_checks: the difference is not clamped at 0.
passed_checks_unclamped(total) == 17 - total

\* max(0, 17 - len(issues))
passed_checks(total) == Max(0, 17 - total)

\* Mutant of option_enabled: a flag that is absent counts as disabled.
option_enabled_default_off(opts, flag) == Get(opts, flag, FALSE)

\* options.get(flag, True)
option_enabled(opts, flag) == Get(opts, flag, TRUE)

\* Mutant of Transform: the issues list is not started afresh.
Transform_keeping_issues ==
    /\ pc = "start"
    /\ IF transform_elements_raises(elements)
       THEN pc' = "raised" /\ UNCHANGED transformed
       ELSE /\ transformed' = _transform_elements(elements)
            /\ pc' = "contrast"
    /\ start_time' = now
    /\ pipeline_time' = 0
    /\ UNCHANGED <<now, design_context,
                   ai_outcome, rules, history, first_color, second_color, ratio,
                   elements, options, issues, overall_score, report, ai_enabled,
                   ai_analysis>>

\* start_time = time.time()
\* transformed_elements = self._transform_elements(elements); issues = []
Transform ==
    /\ pc = "start"
    /\ start_time' = now
    /\ pipeline_time' = 0
    /\ IF transform_elements_raises(elements)
       THEN pc' = "raised" /\ UNCHANGED <<transformed, issues>>
       ELSE /\ transformed' = _transform_elements(elements)
            /\ issues' = <<>>
            /\ pc' = "contrast"
    /\ UNCHANGED <<now, design_context,
                   ai_outcome, rules, history, first_color, second_color, ratio,
                 elements, options, overall_score, report, ai_enabled,
                   ai_analysis>>

\* if options.get('checkContrast', True): issues.extend(self._check_contrast(..))
RunContrast ==
    /\ pc = "contrast"
    /\ IF ~option_enabled(options, "checkContrast")
       THEN pc' = "typography" /\ UNCHANGED issues
       ELSE IF check_contrast_raises(transformed)
       THEN pc' = "raised" /\ UNCHANGED issues
       ELSE pc' = "typography" /\ issues' = extend(issues, _check_contrast(transformed))
    /\ UNCHANGED <<now, start_time, pipeline_time, design_context,
                   ai_outcome, rules, history, first_color, second_color, ratio,
                 elements, options, transformed, overall_score, report,
                   ai_enabled, ai_analysis>>

RunTypography ==
    /\ pc = "typography"
    /\ IF ~option_enabled(options, "checkTypography")
       THEN pc' = "spacing" /\ UNCHANGED issues
       ELSE IF check_typography_raises(transformed)
       THEN pc' = "raised" /\ UNCHANGED issues
       ELSE pc' = "spacing" /\ issues' = extend(issues, _check_typography(transformed))
    /\ UNCHANGED <<now, start_time, pipeline_time, design_context,
                   ai_outcome, rules, history, first_color, second_color, ratio,
                 elements, options, transformed, overall_score, report,
                   ai_enabled, ai_analysis>>

RunSpacing ==
    /\ pc = "spacing"
    /\ IF ~option_enabled(options, "checkSpacing")
       THEN pc' = "accessibility" /\ UNCHANGED issues
       ELSE IF check_spacing_raises(transformed)
       THEN pc' = "raised" /\ UNCHANGED issues
       ELSE pc' = "accessibility" /\ issues' = extend(issues, _check_spacing(transformed))
    /\ UNCHANGED <<now, start_time, pipeline_time, design_context,
                   ai_outcome, rules, history, first_color, second_color, ratio,
                 elements, options, transformed, overall_score, report,
                   ai_enabled, ai_analysis>>

RunAccessibility ==
    /\ pc = "accessibility"
    /\ IF ~option_enabled(options, "checkAccessibility")
       THEN pc' = "alignment" /\ UNCHANGED issues
       ELSE IF check_accessibility_raises(transformed)
       THEN pc' = "raised" /\ UNCHANGED issues
       ELSE pc' = "alignment"
            /\ issues' = extend(issues, _check_accessibility(transformed))
    /\ UNCHANGED <<now, start_time, pipeline_time, design_context,
                   ai_outcome, rules, history, first_color, second_color, ratio,
                 elements, options, transformed, overall_score, report,
                   ai_enabled, ai_analysis>>

RunAlignment ==
    /\ pc = "alignment"
    /\ IF ~option_enabled(options, "checkAlignment")
       THEN pc' = "score" /\ UNCHANGED issues
       ELSE IF check_alignment_raises(transformed)
       THEN pc' = "raised" /\ UNCHANGED issues
       ELSE pc' = "score" /\ issues' = extend(issues, _check_alignment(transformed))
    /\ UNCHANGED <<now, start_time, pipeline_time, design_context,
                   ai_outcome, rules, history, first_color, second_color, ratio,
                 elements, options, transformed, overall_score, report,
                   ai_enabled, ai_analysis>>

\* overall_score = self._calculate_score(issues)
CalculateScore ==
    /\ pc = "score"
    /\ overall_score' = _calculate_score(issues)
    /\ pc' = "ai"
    /\ UNCHANGED <<now, start_time, pipeline_time, design_context,
                   ai_outcome, rules, history, first_color, second_color, ratio,
                 elements, options, transformed, issues, report, ai_enabled,
                   ai_analysis>>

\* ai_analysis = self.ai_analyzer.analyze_with_ai(transformed_elements, issues)
AnalyzeWithAi ==
    /\ pc = "ai"
    /\ \E outcome \in {"ok", "error"}, response \in AiResponseSet :
          /\ ai_analysis' = analyze_with_ai(ai_enabled, outcome, response)
          /\ ai_outcome' = IF ai_enabled THEN outcome ELSE "disabled"
    /\ design_context' = IF ai_enabled
                         THEN _prepare_design_context(transformed, issues)
                         ELSE design_context
    /\ pc' = "report"
    /\ UNCHANGED <<now, start_time, pipeline_time,
                   rules, history, first_color, second_color, ratio,
                 elements, options, transformed, issues, overall_score,
                   report, ai_enabled>>

\* round(time.time() - start_time, 2): milliseconds to hundredths of a
\* second, to the nearest (a tie, which the difference of two float clock
\* readings hardly produces, goes up).
analysis_time_of(start, end) == ((end - start) + 5) \div 10

\* analysis_time = round(time.time() - start_time, 2); report = {...};
\* return report
BuildReport ==
    /\ pc = "report"
    /\ report' = [overallScore |-> overall_score,
                  totalIssues |-> Len(issues),
                  issues |-> issues,
                  passed |-> passed_checks(Len(issues)),
                  failed |-> Len(issues),
                  analysisTime |-> analysis_time_of(start_time, now),
                  aiAnalysis |-> ai_analysis]
    /\ pc' = "returned"
    /\ UNCHANGED <<now, start_time, pipeline_time, design_context,
                   ai_outcome, rules, history, first_color, second_color, ratio,
                 elements, options, transformed, issues, overall_score,
                   ai_enabled, ai_analysis>>

(***************************************************************************)
(* Specification Spec: analyze_design called with every list of at most    *)
(* MaxElements raw records of RawElementSet (well-formed, partial, and     *)
(* with null or wrongly typed fields) and every options record of          *)
(* OptionsSet, the AI analyzer enabled or not.                             *)
(***************************************************************************)
FlagNames ==
    {"checkContrast", "checkTypography", "checkSpacing", "checkAccessibility",
     "checkAlignment"}

\* Every flag given; no flag given; one flag given.
OptionsSet ==
    [FlagNames -> BOOLEAN] \cup {EmptyDict}
    \cup {[k \in {f} |-> b] : f \in FlagNames, b \in BOOLEAN}

RawElementSet ==
    { EmptyDict,
      [id |-> JStr("t1"), type |-> "text",
       properties |-> [color |-> Gray, backgroundColor |-> White,
                       fontSize |-> JNum(Px(10)), fontFamily |-> "Helvetica",
                       position |-> [x |-> JNum(Px(103)), y |-> JNum(Px(52))],
                       dimensions |-> [width |-> JNum(Px(200)),
                                       height |-> JNum(Px(40))],
                       text |-> "Sample body text"]],
      [id |-> JStr("t2"), type |-> "text",
       properties |-> [color |-> Color285, fontSize |-> JNum(Px(18))]],
      [id |-> JStr("t3"), type |-> "text"],
      [id |-> JStr("i1"), type |-> "image",
       properties |-> [altText |-> JStr(<<"l", "o", "g", "o">>),
                       position |-> [x |-> JNum(Px(50))]]],
      [id |-> JStr("i2"), type |-> "image",
       properties |-> [altText |-> JStr(<<" ">>),
                       position |-> [x |-> JNum(Px(100)), y |-> JNum(Px(50))]]],
      [id |-> JStr("n1"), type |-> "text", properties |-> None],
      [id |-> JStr("n2"), type |-> "rectangle",
       properties |-> [position |-> None]],
      [id |-> JStr("n3"), properties |-> [dimensions |-> None]],
      [id |-> JStr("n4"), type |-> "text", properties |-> [fontSize |-> None]],
      [id |-> JStr("n5"), type |-> "text",
       properties |-> [fontSize |-> JStr(<<"1", "6">>)]] }

Init ==
    /\ pc = "start"
    /\ elements \in SeqUpTo(RawElementSet, MaxElements)
    /\ options \in OptionsSet
    /\ ai_enabled \in BOOLEAN
    /\ transformed = <<>>
    /\ issues = <<>>
    /\ overall_score = -1
    /\ ai_analysis = EmptyDict
    /\ ai_outcome = "none"
    /\ rules = analysis_rules
    /\ history = <<>>
    /\ first_color = None
    /\ second_color = None
    /\ ratio = -1
    /\ now = 0
    /\ start_time = 0
    /\ pipeline_time = 0
    /\ design_context = EmptyDict
    /\ report = EmptyDict

Next ==
    \/ Transform
    \/ RunContrast
    \/ RunTypography
    \/ RunSpacing
    \/ RunAccessibility
    \/ RunAlignment
    \/ CalculateScore
    \/ AnalyzeWithAi
    \/ BuildReport

Spec == Init /\ [][Next]_vars

(***************************************************************************)
(* Claims about analyze_design.                                            *)
(***************************************************************************)
\* C4: analyze_design returns a report, and never raises, whatever the shape
\* of the raw records.
C4_NeverRaises ==
    pc # "raised"

\* A flag is on when it is true or absent.
FlagOn(flag) == flag \notin DOMAIN options \/ options[flag]

IssuesOfType(issue_list, t) == SelectSeq(issue_list, LAMBDA i : i.type = t)

\* C6: in the returned report the issues of each checker's type are exactly
\* what that checker yields on the normalized elements when its flag is true
\* or absent, and none when its flag is false, whatever the other flags are.
C6_FlagsSelectCheckers ==
    pc = "returned" =>
        /\ IssuesOfType(report.issues, "contrast") =
              (IF FlagOn("checkContrast")
               THEN _check_contrast(transformed) ELSE <<>>)
        /\ IssuesOfType(report.issues, "typography") =
              (IF FlagOn("checkTypography")
               THEN _check_typography(transformed) ELSE <<>>)
        /\ IssuesOfType(report.issues, "spacing") =
              (IF FlagOn("checkSpacing")
               THEN _check_spacing(transformed) ELSE <<>>)
        /\ IssuesOfType(report.issues, "accessibility") =
              (IF FlagOn("checkAccessibility")
               THEN _check_accessibility(transformed) ELSE <<>>)
        /\ IssuesOfType(report.issues, "alignment") =
              (IF FlagOn("checkAlignment")
               THEN _check_alignment(transformed) ELSE <<>>)
        /\ \A k \in 1..Len(report.issues) :
              report.issues[k].type \in
                  {"contrast", "typography", "spacing", "accessibility",
                   "alignment"}

\* C6 witness: a report for a text element with low contrast and a small
\* font and an image, with checkContrast false and the other flags absent:
\* it holds typography and accessibility issues and no contrast issue.
C6_Witness ==
    /\ pc = "returned"
    /\ options = [checkContrast |-> FALSE]
    /\ _check_contrast(transformed) # <<>>
    /\ IssuesOfType(report.issues, "contrast") = <<>>
    /\ IssuesOfType(report.issues, "typography") # <<>>
    /\ IssuesOfType(report.issues, "accessibility") # <<>>

(***************************************************************************)
(* Claims about the checkers inside analyze_design.                        *)
(***************************************************************************)
HasIssue(issue_list, t, id) ==
    \E k \in 1..Len(issue_list) : issue_list[k].type = t /\ issue_list[k].id = id

CountIssues(issue_list, t, id) ==
    Cardinality({k \in 1..Len(issue_list) :
                    issue_list[k].type = t /\ issue_list[k].id = id})

\* The observations on a normalized list, every element being positioned by
\* its x and y: one per unordered pair and axis.
NormObservations(norm) ==
    {<<i, j, axis>> \in (1..Len(norm)) \X (1..Len(norm)) \X {"x", "y"} : i < j}

NormValue(norm, o) == Abs(norm[o[1]][o[3]].num - norm[o[2]][o[3]].num)

NormCramped(norm) ==
    /\ Len(norm) >= 2
    /\ \E o \in NormObservations(norm) :
          0 < NormValue(norm, o) /\ NormValue(norm, o) < 8 * Scale

NormInconsistent(norm) ==
    /\ Len(norm) >= 2
    /\ Cardinality({NormValue(norm, o) \div Scale :
                      o \in {q \in NormObservations(norm) :
                                NormValue(norm, q) > 0}}) > 6

NormMisaligned(norm) ==
    /\ Len(norm) >= 3
    /\ Cardinality({o \in NormObservations(norm) :
                      /\ 1 * Scale <= NormValue(norm, o)
                      /\ NormValue(norm, o) <= 5 * Scale}) > 2

\* C11: in a returned report, when the spacing (alignment) check is enabled
\* and the x and y of the normalized elements give a cramped or an
\* inconsistent spacing finding (more than 2 near misses), the report holds
\* the corresponding spacing (alignment) issue.
C11_SpacingAlignmentOnNormalized ==
    pc = "returned" =>
        /\ (FlagOn("checkSpacing") /\ NormCramped(transformed)) =>
              HasIssue(report.issues, "spacing", <<"spacing-cramped">>)
        /\ (FlagOn("checkSpacing") /\ NormInconsistent(transformed)) =>
              HasIssue(report.issues, "spacing", <<"spacing-inconsistent">>)
        /\ (FlagOn("checkAlignment") /\ NormMisaligned(transformed)) =>
              HasIssue(report.issues, "alignment", <<"alignment-misaligned">>)

\* The images of a normalized list whose supplied altText is absent, empty
\* or whitespace-only.
ImagesLackingAlt(norm) ==
    {i \in 1..Len(norm) :
        /\ norm[i].type = "image"
        /\ \/ "altText" \notin DOMAIN norm[i]
           \/ \A k \in 1..Len(norm[i].altText.str) :
                 norm[i].altText.str[k] \in {" ", "\t", "\n", "\r"}}

\* C12: in a returned report with the accessibility check enabled there is
\* one accessibility-alt-text issue if and only if some image lacks alt text
\* (altText absent, empty or whitespace-only), critical when more than 2
\* images lack it and high otherwise.
C12_AltTextIssue ==
    (pc = "returned" /\ FlagOn("checkAccessibility")) =>
        LET lacking == Cardinality(ImagesLackingAlt(transformed))
            id == <<"accessibility-alt-text">>
        IN /\ CountIssues(report.issues, "accessibility", id) =
                 (IF lacking > 0 THEN 1 ELSE 0)
           /\ \A k \in 1..Len(report.issues) :
                 (report.issues[k].type = "accessibility"
                    /\ report.issues[k].id = id) =>
                 report.issues[k].severity =
                    (IF lacking > 2 THEN "critical" ELSE "high")

\* The text elements of a normalized list whose own color against their own
\* backgroundColor has a ratio below 4.5.
TextBelowAA(norm) ==
    {i \in 1..Len(norm) :
        /\ norm[i].type = "text"
        /\ _calculate_contrast_ratio(Get(norm[i], "color", Black),
                                     Get(norm[i], "backgroundColor", White)) < 450}

\* C13: in a returned report with the accessibility check enabled there is
\* exactly one high accessibility-contrast issue if and only if some text
\* element has a contrast ratio below 4.5; so a report with a contrast issue
\* also holds accessibility-contrast.
C13_AccessibilityContrastIssue ==
    (pc = "returned" /\ FlagOn("checkAccessibility")) =>
        LET id == <<"accessibility-contrast">>
        IN /\ CountIssues(report.issues, "accessibility", id) =
                 (IF TextBelowAA(transformed) # {} THEN 1 ELSE 0)
           /\ IssuesOfType(report.issues, "contrast") # <<>> =>
                 HasIssue(report.issues, "accessibility", id)

(***************************************************************************)
(* Claims about the report and the advisory service.                       *)
(***************************************************************************)
\* The issues the rule-based stages yield for an input, whatever the
\* advisory service does: the enabled checkers on the normalized list, in
\* the order of analyze_design.
RuleIssues(raw, opts) ==
    LET norm == _transform_elements(raw)
        on(flag) == flag \notin DOMAIN opts \/ opts[flag]
    IN (IF on("checkContrast") THEN _check_contrast(norm) ELSE <<>>)
       \o (IF on("checkTypography") THEN _check_typography(norm) ELSE <<>>)
       \o (IF on("checkSpacing") THEN _check_spacing(norm) ELSE <<>>)
       \o (IF on("checkAccessibility") THEN _check_accessibility(norm) ELSE <<>>)
       \o (IF on("checkAlignment") THEN _check_alignment(norm) ELSE <<>>)

\* C14: analyze_design never raises once the advisory service has been
\* consulted; in a returned report issues, overallScore, totalIssues, passed
\* and failed are those of the input alone, whether the service was
\* disabled, failed or replied; and a failed (or disabled) service shows
\* only as an aiAnalysis with ai_enabled false and no suggestions.
C14_ReportIndependentOfAdvisory ==
    /\ pc = "raised" => ai_outcome = "none"
    /\ pc = "returned" =>
          LET expected == RuleIssues(elements, options)
          IN /\ ai_outcome \in {"disabled", "error", "ok"}
             /\ report.issues = expected
             /\ report.overallScore = _calculate_score(expected)
             /\ report.totalIssues = Len(expected)
             /\ report.failed = Len(expected)
             /\ report.passed = (IF Len(expected) <= 17
                                 THEN 17 - Len(expected) ELSE 0)
             /\ ai_outcome \in {"disabled", "error"} =>
                   /\ report.aiAnalysis.ai_enabled = FALSE
                   /\ report.aiAnalysis.suggestions = <<>>

\* C14 witness: a report with issues returned after the advisory service
\* raised an error.
C14_Witness ==
    /\ pc = "returned"
    /\ ai_enabled
    /\ ai_outcome = "error"
    /\ Len(report.issues) > 0
    /\ report.overallScore < 100
    /\ report.aiAnalysis.ai_enabled = FALSE

(***************************************************************************)
(* Specification SpecMany: analyze_design called with a list of n small    *)
(* low-contrast text elements (two issues each) followed by at most one    *)
(* large low-contrast text element (one issue), n <= MaxMany, and every    *)
(* options record of OptionsSet: reports with 0 to 2 * MaxMany + 1 issues. *)
(***************************************************************************)
Repeat(e, n) == [i \in 1..n |-> e]

SmallGrayText ==
    [id |-> JStr("s"), type |-> "text",
     properties |-> [color |-> Gray, backgroundColor |-> White,
                     fontSize |-> JNum(Px(10)), fontFamily |-> "Arial"]]

LargePaleText ==
    [id |-> JStr("l"), type |-> "text",
     properties |-> [color |-> Color285, fontSize |-> JNum(Px(18)),
                     fontFamily |-> "Arial"]]

ManyElementsSet ==
    {Repeat(SmallGrayText, n) \o Repeat(LargePaleText, m) :
        n \in 0..MaxMany, m \in 0..1}

InitMany ==
    /\ pc = "start"
    /\ elements \in ManyElementsSet
    /\ options \in OptionsSet
    /\ ai_enabled \in BOOLEAN
    /\ transformed = <<>>
    /\ issues = <<>>
    /\ overall_score = -1
    /\ ai_analysis = EmptyDict
    /\ ai_outcome = "none"
    /\ rules = analysis_rules
    /\ history = <<>>
    /\ first_color = None
    /\ second_color = None
    /\ ratio = -1
    /\ now = 0
    /\ start_time = 0
    /\ pipeline_time = 0
    /\ design_context = EmptyDict
    /\ report = EmptyDict

SpecMany == InitMany /\ [][Next]_vars

(***************************************************************************)
(* Specification SpecLive: analyze_design called with at most MaxLive      *)
(* small text elements followed by at most one large one, with no flag or  *)
(* one flag given, and with the progress the code has.  Every statement of *)
(* analyze_design is executed once control reaches it; the call of         *)
(* analyze_with_ai returns by itself only when the analyzer is disabled    *)
(* (no request is made).  With the analyzer enabled the call returns when  *)
(* model.generate_content returns or raises, which the code awaits without *)
(* a timeout: no fairness is assumed for it.  (At most one statement is    *)
(* enabled in a state, so one weak fairness condition covers them all.)    *)
(***************************************************************************)
InitLive ==
    /\ pc = "start"
    /\ elements \in {Repeat(SmallGrayText, n) \o Repeat(LargePaleText, m) :
                        n \in 0..MaxLive, m \in 0..1}
    /\ options \in {EmptyDict} \cup
                   {[k \in {f} |-> b] : f \in FlagNames, b \in BOOLEAN}
    /\ ai_enabled \in BOOLEAN
    /\ transformed = <<>>
    /\ issues = <<>>
    /\ overall_score = -1
    /\ ai_analysis = EmptyDict
    /\ ai_outcome = "none"
    /\ rules = analysis_rules
    /\ history = <<>>
    /\ first_color = None
    /\ second_color = None
    /\ ratio = -1
    /\ now = 0
    /\ start_time = 0
    /\ pipeline_time = 0
    /\ design_context = EmptyDict
    /\ report = EmptyDict

OwnStep ==
    \/ Transform
    \/ RunContrast
    \/ RunTypography
    \/ RunSpacing
    \/ RunAccessibility
    \/ RunAlignment
    \/ CalculateScore
    \/ (AnalyzeWithAi /\ ~ai_enabled)
    \/ BuildReport

Fairness == WF_vars(OwnStep)

SpecLive == InitLive /\ [][Next]_vars /\ Fairness

\* C15: once scoring has completed, the report is eventually returned, even
\* if the advisory service never answers.
C15_ReportEventuallyReturned ==
    (pc = "ai") ~> (pc = "returned")

\* The progress the code does have: up to the advisory call, and from it
\* when the analyzer is disabled.
ScoringIsReached ==
    (pc = "start") ~> (pc = "ai")

DisabledAdvisoryReturns ==
    (pc = "ai" /\ ~ai_enabled) ~> (pc = "returned")

\* C16: in every report totalIssues is the length of issues, failed equals
\* totalIssues and passed is 17 - totalIssues, or 0 when totalIssues exceeds
\* 17, whichever checkers are enabled.
C16_ReportCounts ==
    pc = "returned" =>
        /\ report.totalIssues = Len(report.issues)
        /\ report.failed = report.totalIssues
        /\ report.passed = (IF report.totalIssues <= 17
                            THEN 17 - report.totalIssues ELSE 0)
        /\ report.totalIssues <= 17 => report.passed + report.failed = 17

\* C16 witness: a report with more than 17 issues, one checker disabled,
\* passed being 0.
C16_Witness ==
    /\ pc = "returned"
    /\ options = [checkAccessibility |-> FALSE]
    /\ report.totalIssues > 17
    /\ report.passed = 0
    /\ report.failed = report.totalIssues

\* The position of a checker in the fixed order.
CheckerRank(t) ==
    CASE t = "contrast" -> 1
      [] t = "typography" -> 2
      [] t = "spacing" -> 3
      [] t = "accessibility" -> 4
      [] t = "alignment" -> 5

\* The element ids named by the per-element issues with the given id prefix,
\* in report order.
RECURSIVE PerElementIds(_, _)
PerElementIds(issue_list, prefix) ==
    IF Len(issue_list) = 0 THEN <<>>
    ELSE (IF Len(Head(issue_list).id) = 2 /\ Head(issue_list).id[1] = prefix
          THEN <<Head(issue_list).id[2]>> ELSE <<>>)
         \o PerElementIds(Tail(issue_list), prefix)

\* s is t with some members left out.
RECURSIVE IsSubsequence(_, _)
IsSubsequence(s, t) ==
    IF Len(s) = 0 THEN TRUE
    ELSE IF Len(t) = 0 THEN FALSE
    ELSE IF Head(s) = Head(t) THEN IsSubsequence(Tail(s), Tail(t))
    ELSE IsSubsequence(s, Tail(t))

NormalizedIds(norm) == [i \in 1..Len(norm) |-> norm[i].id]

\* C17: in every report no issue of a later checker precedes an issue of an
\* earlier one (order contrast, typography, spacing, accessibility,
\* alignment); the per-element issues of a checker follow the order of the
\* elements; the aggregate issue of the typography (accessibility) checker
\* precedes its per-element (contrast) issue.
C17_IssueOrder ==
    pc = "returned" =>
        /\ \A i, j \in 1..Len(report.issues) :
              i < j => CheckerRank(report.issues[i].type)
                          <= CheckerRank(report.issues[j].type)
        /\ IsSubsequence(PerElementIds(report.issues, "contrast-"),
                         NormalizedIds(transformed))
        /\ IsSubsequence(PerElementIds(report.issues, "typography-small-"),
                         NormalizedIds(transformed))
        /\ \A i, j \in 1..Len(report.issues) :
              (/\ report.issues[i].id = <<"typography-font-variety">>
               /\ report.issues[j].type = "typography"
               /\ i # j) => i < j
        /\ \A i, j \in 1..Len(report.issues) :
              (/\ report.issues[i].id = <<"accessibility-alt-text">>
               /\ report.issues[j].id = <<"accessibility-contrast">>) => i < j

\* C17 witness: a report for two text elements with different ids, both
\* flagged by the contrast checker in element order, followed by a
\* typography issue.
C17_Witness ==
    /\ pc = "returned"
    /\ Len(transformed) = 2
    /\ transformed[1].id # transformed[2].id
    /\ Len(report.issues) >= 3
    /\ report.issues[1].id = <<"contrast-", transformed[1].id>>
    /\ report.issues[2].id = <<"contrast-", transformed[2].id>>
    /\ report.issues[3].type = "typography"

(***************************************************************************)
(* Specification SpecCalls: up to MaxCalls successive calls of             *)
(* analyze_design on the shared analyzer qa_analyzer (backend.py 706-707). *)
(* The analyzer's fields (rules, ai_enabled) live across calls; the locals *)
(* of a call keep the previous call's values until the call assigns them.  *)
(* Each input is the empty list or one record of CallElementSet, with no   *)
(* flag or with checkContrast false.                                       *)
(***************************************************************************)
CallElementSet ==
    {e \in RawElementSet :
        Get(e, "id", None) \in {JStr("t1"), JStr("i1"), JStr("n3")}}

CallElementsSet == {<<>>} \cup {<<e>> : e \in CallElementSet}

CallOptionsSet == {EmptyDict, [checkContrast |-> FALSE]}

\* What a returned call produced, without the advisory segment.
CallResult ==
    [transformed |-> transformed,
     issues |-> report.issues,
     overallScore |-> report.overallScore,
     totalIssues |-> report.totalIssues,
     passed |-> report.passed,
     failed |-> report.failed]

InitCalls ==
    /\ pc = "start"
    /\ elements \in CallElementsSet
    /\ options \in CallOptionsSet
    /\ ai_enabled \in BOOLEAN
    /\ transformed = <<>>
    /\ issues = <<>>
    /\ overall_score = -1
    /\ ai_analysis = EmptyDict
    /\ ai_outcome = "none"
    /\ rules = analysis_rules
    /\ history = <<>>
    /\ first_color = None
    /\ second_color = None
    /\ ratio = -1
    /\ now = 0
    /\ start_time = 0
    /\ pipeline_time = 0
    /\ design_context = EmptyDict
    /\ report = EmptyDict

\* The call under analysis has ended; qa_analyzer.analyze_design is called
\* again with a new input.
NewCall ==
    /\ pc \in {"returned", "raised"}
    /\ Len(history) < MaxCalls - 1
    /\ history' = Append(history,
                         [elements |-> elements,
                          options |-> options,
                          ended |-> pc,
                          result |-> IF pc = "returned" THEN CallResult
                                     ELSE EmptyDict])
    /\ elements' \in CallElementsSet
    /\ options' \in CallOptionsSet
    /\ pc' = "start"
    /\ ai_outcome' = "none"
    /\ UNCHANGED <<now, start_time, pipeline_time, design_context,
                   transformed, issues, overall_score, report, ai_enabled,
                   ai_analysis, rules, first_color, second_color, ratio>>

NextCalls == Next \/ NewCall

SpecCalls == InitCalls /\ [][NextCalls]_vars

\* C18: analysis_rules is never changed, and a call that ends after any
\* earlier calls ends as every earlier call with the same elements and
\* options did, and as a call on a fresh analyzer does: with the same
\* normalized elements, issues, overallScore, totalIssues, passed and
\* failed, or by raising.
C18_NoStateAcrossCalls ==
    /\ rules = analysis_rules
    /\ pc = "returned" =>
          /\ transformed = _transform_elements(elements)
          /\ report.issues = RuleIssues(elements, options)
          /\ report.overallScore = _calculate_score(report.issues)
    /\ \A k \in 1..Len(history) :
          (history[k].elements = elements /\ history[k].options = options) =>
              /\ pc = "returned" =>
                    /\ history[k].ended = "returned"
                    /\ history[k].result = CallResult
              /\ pc = "raised" => history[k].ended = "raised"

\* C18 witness: a third call returns a report with issues; the first call
\* had the same input and the second call a different one, with issues too.
C18_Witness ==
    /\ pc = "returned"
    /\ Len(history) = 2
    /\ history[1].elements = elements
    /\ history[1].options = options
    /\ history[2].elements # elements
    /\ history[2].ended = "returned"
    /\ Len(history[2].result.issues) > 0
    /\ Len(report.issues) > 0
    /\ history[1].result = CallResult

(***************************************************************************)
(* Specification SpecRatio: _calculate_contrast_ratio applied to every     *)
(* pair of values of ColorSet, then applied again to the swapped pair.     *)
(* ColorSet holds 6-digit and 3-digit colors with and without '#', strings *)
(* with a character that is no hex digit, strings of 0, 4, 5 and 7 digits, *)
(* null and a number.                                                      *)
(***************************************************************************)
ColorSet ==
    { White, Black, Gray, Color285,
      JStr(<<"#", "f", "f", "f">>),
      JStr(<<"0", "0", "0", "0", "0", "0">>),
      JStr(<<"#", "g", "g", "g">>),
      JStr(<<"#", "f", "f", "f", "f">>),
      JStr(<<"#", "0", "0", "0", "0", "0">>),
      JStr(<<"#", "1", "2", "3", "4", "5">>),
      JStr(<<"#", "F", "F", "F", "F", "F", "F", "F">>),
      JStr(<<>>),
      None,
      JNum(Px(5)) }

InitRatio ==
    /\ pc = "call"
    /\ first_color \in ColorSet
    /\ second_color \in ColorSet
    /\ ratio = -1
    /\ now = 0
    /\ start_time = 0
    /\ pipeline_time = 0
    /\ design_context = EmptyDict
    /\ elements = <<>>
    /\ options = EmptyDict
    /\ transformed = <<>>
    /\ issues = <<>>
    /\ overall_score = -1
    /\ ai_enabled = FALSE
    /\ ai_analysis = EmptyDict
    /\ ai_outcome = "none"
    /\ rules = analysis_rules
    /\ history = <<>>
    /\ report = EmptyDict

\* ratio = self._calculate_contrast_ratio(color1, color2)
CallContrastRatio ==
    /\ pc = "call"
    /\ ratio' = _calculate_contrast_ratio(first_color, second_color)
    /\ pc' = "done"
    /\ UNCHANGED <<now, start_time, pipeline_time, design_context,
                   first_color, second_color, elements, options, transformed,
                   issues, overall_score, report, ai_enabled, ai_analysis,
                   ai_outcome, rules, history>>

\* The same two colors in the other order.
CallSwapped ==
    /\ pc = "done"
    /\ first_color' = second_color
    /\ second_color' = first_color
    /\ ratio' = _calculate_contrast_ratio(first_color', second_color')
    /\ pc' = "swapped"
    /\ UNCHANGED <<now, start_time, pipeline_time, design_context,
                   elements, options, transformed, issues, overall_score,
                   report, ai_enabled, ai_analysis, ai_outcome, rules, history>>

NextRatio == CallContrastRatio \/ CallSwapped

SpecRatio == InitRatio /\ [][NextRatio]_vars

\* A value that is a 3-digit or 6-digit hex color, with or without one
\* leading '#'.
IsHexColor(c) ==
    /\ IsStr(c)
    /\ LET digits == IF Len(c.str) > 0 /\ Head(c.str) = "#"
                     THEN Tail(c.str) ELSE c.str
       IN /\ Len(digits) \in {3, 6}
          /\ \A k \in 1..Len(digits) :
                digits[k] \in {"0", "1", "2", "3", "4", "5", "6", "7", "8",
                               "9", "a", "b", "c", "d", "e", "f", "A", "B",
                               "C", "D", "E", "F"}

\* C19: when at least one of the two values is no 3-digit or 6-digit hex
\* color, _calculate_contrast_ratio returns the fallback 4.5.
C19_FallbackOnUnparseable ==
    (pc = "done" /\ (~IsHexColor(first_color) \/ ~IsHexColor(second_color)))
        => ratio = 450

SwapStep == pc = "done" /\ pc' = "swapped"

\* C20: the ratio of two colors taken in the other order is the same,
\* whether they parse or not.
C20_RatioSymmetric ==
    [][SwapStep => ratio' = ratio]_vars

\* C20 witness: black against white after white against black, ratio 21;
\* and the swapped call has happened.
C20_Witness ==
    /\ pc = "swapped"
    /\ first_color = Black
    /\ second_color = White
    /\ ratio = 2100

(***************************************************************************)
(* Specification SpecTime: analyze_design while the wall clock advances.   *)
(* Time passes (Tick, by 1 to MaxTick ms, up to MaxClock ms) before the    *)
(* call reads start_time, while normalization, the checkers and scoring    *)
(* run, and while an enabled analyzer's request is in progress; building   *)
(* the report takes no time.  pipeline_time accumulates the time that passes   *)
(* from the reading of start_time to the end of scoring.  Inputs: at most  *)
(* one small and one large text element, no options, the AI analyzer       *)
(* enabled or not.                                                         *)
(***************************************************************************)
PipelinePositions ==
    {"contrast", "typography", "spacing", "accessibility", "alignment", "score"}

InitTime ==
    /\ pc = "start"
    /\ elements \in {Repeat(SmallGrayText, n) \o Repeat(LargePaleText, m) :
                        n \in 0..1, m \in 0..1}
    /\ options = EmptyDict
    /\ ai_enabled \in BOOLEAN
    /\ transformed = <<>>
    /\ issues = <<>>
    /\ overall_score = -1
    /\ ai_analysis = EmptyDict
    /\ ai_outcome = "none"
    /\ rules = analysis_rules
    /\ history = <<>>
    /\ first_color = None
    /\ second_color = None
    /\ ratio = -1
    /\ now = 0
    /\ start_time = 0
    /\ pipeline_time = 0
    /\ design_context = EmptyDict
    /\ report = EmptyDict

\* The wall clock advances while the call is at some statement.
Tick ==
    /\ pc \in {"start", "ai"} \cup PipelinePositions
    /\ pc = "ai" => ai_enabled
    /\ \E d \in 1..MaxTick :
          /\ now + d <= MaxClock
          /\ now' = now + d
          /\ pipeline_time' = IF pc \in PipelinePositions
                              THEN pipeline_time + d ELSE pipeline_time
    /\ UNCHANGED <<pc, elements, options, transformed, issues, overall_score,
                   report, ai_enabled, ai_analysis, ai_outcome, rules, history,
                   first_color, second_color, ratio, start_time,
                   design_context>>

NextTime == Next \/ Tick

SpecTime == InitTime /\ [][NextTime]_vars

\* C21: the reported analysisTime is the time from the reading of
\* start_time to the end of scoring, rounded to hundredths of a second; time
\* spent in the advisory call is not part of it.
C21_AnalysisTimeIsPipelineTime ==
    pc = "returned" =>
        report.analysisTime = (pipeline_time + 5) \div 10

\* C22: in the context built for the advisory service every issue of the
\* report is in the group keyed by its own category (the type of its
\* checker), and no group holds issues of two checkers.
C22_ContextGroupsByCategory ==
    (pc = "returned" /\ ai_enabled) =>
        LET groups == design_context.issue_categories
        IN /\ \A k \in 1..Len(report.issues) :
                /\ report.issues[k].type \in DOMAIN groups
                /\ \E j \in 1..Len(groups[report.issues[k].type]) :
                      groups[report.issues[k].type][j] = report.issues[k]
           /\ \A c \in DOMAIN groups :
                \A i, j \in 1..Len(groups[c]) :
                    groups[c][i].type = groups[c][j].type

(***************************************************************************)
(* A further claim about the contrast checker (specification SpecContrast).*)
(***************************************************************************)
IsLargeText(e) == "fontSize" \in DOMAIN e /\ e.fontSize.num >= 18 * Scale

IsTextElement(e) == "type" \in DOMAIN e /\ e.type = "text"

\* C23: _check_contrast emits as many high issues as there are text elements
\* with fontSize below 18 (or absent) and a ratio r with 3.0 <= r < 4.5, and
\* as many critical issues as there are text elements with a ratio below
\* 3.0, and no other issue; so no issue of a text element with
\* fontSize >= 18 is high.
C23_HighOnlyForSmallText ==
    pc = "done" =>
        /\ Cardinality({k \in 1..Len(issues) : issues[k].severity = "high"}) =
           Cardinality({i \in 1..Len(elements) :
                           /\ IsTextElement(elements[i])
                           /\ ~IsLargeText(elements[i])
                           /\ 300 <= ClaimedRatio(elements[i])
                           /\ ClaimedRatio(elements[i]) < 450})
        /\ Cardinality({k \in 1..Len(issues) : issues[k].severity = "critical"}) =
           Cardinality({i \in 1..Len(elements) :
                           /\ IsTextElement(elements[i])
                           /\ ClaimedRatio(elements[i]) < 300})
        /\ \A k \in 1..Len(issues) : issues[k].severity \in {"high", "critical"}

\* C23 witness: a large text with a ratio between 3.0 and 4.5 (no issue)
\* followed by a large text with a ratio below 3.0: one issue, critical.
C23_Witness ==
    /\ pc = "done"
    /\ Len(elements) = 2
    /\ IsTextElement(elements[1]) /\ IsLargeText(elements[1])
    /\ 300 < ClaimedRatio(elements[1]) /\ ClaimedRatio(elements[1]) < 450
    /\ IsTextElement(elements[2]) /\ IsLargeText(elements[2])
    /\ ClaimedRatio(elements[2]) < 300
    /\ Len(issues) = 1
    /\ issues[1].severity = "critical"
====
